---- MODULE Spec2Model ----
(***************************************************************************)
(* A model of the ailurus-kv storage engine: the log-record codec, the     *)
(* data file (segment), the BTree index and the engine that drives         *)
(* put / get / delete / sync / open over a directory of segments.          *)
(*                                                                         *)
(* Files are modelled as sequences of bytes (0..255); records are encoded  *)
(* and decoded exactly as the code does it, CRC-32 included.  A u32 is     *)
(* kept as its four big-endian bytes, since that is how the code stores    *)
(* it (BytesMut::put_u32 / get_u32).                                       *)
(***************************************************************************)
EXTENDS Integers, Sequences, FiniteSets, TLC

(***************************************************************************)
(* Bounds of the model.                                                    *)
(***************************************************************************)
\* the number of put/delete calls of one behaviour
MaxWrites == 3
\* the number of times the directory is opened again
MaxOpens == 1
\* the number of times an iterator is asked again after its end
MaxNones == 2
\* the number of commits that pass the checks of WriteBatch::commit
MaxCommits == 2
\* the number of calls that fail on file I/O
MaxFaults == 1

(***************************************************************************)
(* Program constants.                                                      *)
(***************************************************************************)
INITIAL_DATAFILE_ID == 0
\* size of CRC + size of Type + 2 * length_delimiter_len(u32::MAX)
MAX_HEADER_SZ == 15

(***************************************************************************)
(* Bit operations on bytes and on u32 values (four big-endian bytes).      *)
(***************************************************************************)
\* a XOR b on 4-bit values, as the table Xor4[a + 1][b + 1]
Xor4 ==
  <<
    <<0, 1, 2, 3, 4, 5, 6, 7, 8, 9, 10, 11, 12, 13, 14, 15>>,
    <<1, 0, 3, 2, 5, 4, 7, 6, 9, 8, 11, 10, 13, 12, 15, 14>>,
    <<2, 3, 0, 1, 6, 7, 4, 5, 10, 11, 8, 9, 14, 15, 12, 13>>,
    <<3, 2, 1, 0, 7, 6, 5, 4, 11, 10, 9, 8, 15, 14, 13, 12>>,
    <<4, 5, 6, 7, 0, 1, 2, 3, 12, 13, 14, 15, 8, 9, 10, 11>>,
    <<5, 4, 7, 6, 1, 0, 3, 2, 13, 12, 15, 14, 9, 8, 11, 10>>,
    <<6, 7, 4, 5, 2, 3, 0, 1, 14, 15, 12, 13, 10, 11, 8, 9>>,
    <<7, 6, 5, 4, 3, 2, 1, 0, 15, 14, 13, 12, 11, 10, 9, 8>>,
    <<8, 9, 10, 11, 12, 13, 14, 15, 0, 1, 2, 3, 4, 5, 6, 7>>,
    <<9, 8, 11, 10, 13, 12, 15, 14, 1, 0, 3, 2, 5, 4, 7, 6>>,
    <<10, 11, 8, 9, 14, 15, 12, 13, 2, 3, 0, 1, 6, 7, 4, 5>>,
    <<11, 10, 9, 8, 15, 14, 13, 12, 3, 2, 1, 0, 7, 6, 5, 4>>,
    <<12, 13, 14, 15, 8, 9, 10, 11, 4, 5, 6, 7, 0, 1, 2, 3>>,
    <<13, 12, 15, 14, 9, 8, 11, 10, 5, 4, 7, 6, 1, 0, 3, 2>>,
    <<14, 15, 12, 13, 10, 11, 8, 9, 6, 7, 4, 5, 2, 3, 0, 1>>,
    <<15, 14, 13, 12, 11, 10, 9, 8, 7, 6, 5, 4, 3, 2, 1, 0>>
  >>

Xor8(a, b) == 16 * Xor4[(a \div 16) + 1][(b \div 16) + 1] + Xor4[(a % 16) + 1][(b % 16) + 1]

Xor32(x, y) == <<Xor8(x[1], y[1]), Xor8(x[2], y[2]), Xor8(x[3], y[3]), Xor8(x[4], y[4])>>

\* x >> 8 on a u32
Shr8(x) == <<0, x[1], x[2], x[3]>>

(***************************************************************************)
(* CRC-32 (IEEE, reflected, polynomial 0xEDB88320), as crc32fast computes  *)
(* it: table driven, initial value and final xor 0xFFFFFFFF.               *)
(***************************************************************************)
\* crc32fast's byte table for the polynomial 0xEDB88320: CrcTable[i + 1] is
\* the entry of the byte i, as four big-endian bytes
CrcTable ==
  <<
    <<0, 0, 0, 0>>, <<119, 7, 48, 150>>, <<238, 14, 97, 44>>, <<153, 9, 81, 186>>,
    <<7, 109, 196, 25>>, <<112, 106, 244, 143>>, <<233, 99, 165, 53>>, <<158, 100, 149, 163>>,
    <<14, 219, 136, 50>>, <<121, 220, 184, 164>>, <<224, 213, 233, 30>>, <<151, 210, 217, 136>>,
    <<9, 182, 76, 43>>, <<126, 177, 124, 189>>, <<231, 184, 45, 7>>, <<144, 191, 29, 145>>,
    <<29, 183, 16, 100>>, <<106, 176, 32, 242>>, <<243, 185, 113, 72>>, <<132, 190, 65, 222>>,
    <<26, 218, 212, 125>>, <<109, 221, 228, 235>>, <<244, 212, 181, 81>>, <<131, 211, 133, 199>>,
    <<19, 108, 152, 86>>, <<100, 107, 168, 192>>, <<253, 98, 249, 122>>, <<138, 101, 201, 236>>,
    <<20, 1, 92, 79>>, <<99, 6, 108, 217>>, <<250, 15, 61, 99>>, <<141, 8, 13, 245>>,
    <<59, 110, 32, 200>>, <<76, 105, 16, 94>>, <<213, 96, 65, 228>>, <<162, 103, 113, 114>>,
    <<60, 3, 228, 209>>, <<75, 4, 212, 71>>, <<210, 13, 133, 253>>, <<165, 10, 181, 107>>,
    <<53, 181, 168, 250>>, <<66, 178, 152, 108>>, <<219, 187, 201, 214>>, <<172, 188, 249, 64>>,
    <<50, 216, 108, 227>>, <<69, 223, 92, 117>>, <<220, 214, 13, 207>>, <<171, 209, 61, 89>>,
    <<38, 217, 48, 172>>, <<81, 222, 0, 58>>, <<200, 215, 81, 128>>, <<191, 208, 97, 22>>,
    <<33, 180, 244, 181>>, <<86, 179, 196, 35>>, <<207, 186, 149, 153>>, <<184, 189, 165, 15>>,
    <<40, 2, 184, 158>>, <<95, 5, 136, 8>>, <<198, 12, 217, 178>>, <<177, 11, 233, 36>>,
    <<47, 111, 124, 135>>, <<88, 104, 76, 17>>, <<193, 97, 29, 171>>, <<182, 102, 45, 61>>,
    <<118, 220, 65, 144>>, <<1, 219, 113, 6>>, <<152, 210, 32, 188>>, <<239, 213, 16, 42>>,
    <<113, 177, 133, 137>>, <<6, 182, 181, 31>>, <<159, 191, 228, 165>>, <<232, 184, 212, 51>>,
    <<120, 7, 201, 162>>, <<15, 0, 249, 52>>, <<150, 9, 168, 142>>, <<225, 14, 152, 24>>,
    <<127, 106, 13, 187>>, <<8, 109, 61, 45>>, <<145, 100, 108, 151>>, <<230, 99, 92, 1>>,
    <<107, 107, 81, 244>>, <<28, 108, 97, 98>>, <<133, 101, 48, 216>>, <<242, 98, 0, 78>>,
    <<108, 6, 149, 237>>, <<27, 1, 165, 123>>, <<130, 8, 244, 193>>, <<245, 15, 196, 87>>,
    <<101, 176, 217, 198>>, <<18, 183, 233, 80>>, <<139, 190, 184, 234>>, <<252, 185, 136, 124>>,
    <<98, 221, 29, 223>>, <<21, 218, 45, 73>>, <<140, 211, 124, 243>>, <<251, 212, 76, 101>>,
    <<77, 178, 97, 88>>, <<58, 181, 81, 206>>, <<163, 188, 0, 116>>, <<212, 187, 48, 226>>,
    <<74, 223, 165, 65>>, <<61, 216, 149, 215>>, <<164, 209, 196, 109>>, <<211, 214, 244, 251>>,
    <<67, 105, 233, 106>>, <<52, 110, 217, 252>>, <<173, 103, 136, 70>>, <<218, 96, 184, 208>>,
    <<68, 4, 45, 115>>, <<51, 3, 29, 229>>, <<170, 10, 76, 95>>, <<221, 13, 124, 201>>,
    <<80, 5, 113, 60>>, <<39, 2, 65, 170>>, <<190, 11, 16, 16>>, <<201, 12, 32, 134>>,
    <<87, 104, 181, 37>>, <<32, 111, 133, 179>>, <<185, 102, 212, 9>>, <<206, 97, 228, 159>>,
    <<94, 222, 249, 14>>, <<41, 217, 201, 152>>, <<176, 208, 152, 34>>, <<199, 215, 168, 180>>,
    <<89, 179, 61, 23>>, <<46, 180, 13, 129>>, <<183, 189, 92, 59>>, <<192, 186, 108, 173>>,
    <<237, 184, 131, 32>>, <<154, 191, 179, 182>>, <<3, 182, 226, 12>>, <<116, 177, 210, 154>>,
    <<234, 213, 71, 57>>, <<157, 210, 119, 175>>, <<4, 219, 38, 21>>, <<115, 220, 22, 131>>,
    <<227, 99, 11, 18>>, <<148, 100, 59, 132>>, <<13, 109, 106, 62>>, <<122, 106, 90, 168>>,
    <<228, 14, 207, 11>>, <<147, 9, 255, 157>>, <<10, 0, 174, 39>>, <<125, 7, 158, 177>>,
    <<240, 15, 147, 68>>, <<135, 8, 163, 210>>, <<30, 1, 242, 104>>, <<105, 6, 194, 254>>,
    <<247, 98, 87, 93>>, <<128, 101, 103, 203>>, <<25, 108, 54, 113>>, <<110, 107, 6, 231>>,
    <<254, 212, 27, 118>>, <<137, 211, 43, 224>>, <<16, 218, 122, 90>>, <<103, 221, 74, 204>>,
    <<249, 185, 223, 111>>, <<142, 190, 239, 249>>, <<23, 183, 190, 67>>, <<96, 176, 142, 213>>,
    <<214, 214, 163, 232>>, <<161, 209, 147, 126>>, <<56, 216, 194, 196>>, <<79, 223, 242, 82>>,
    <<209, 187, 103, 241>>, <<166, 188, 87, 103>>, <<63, 181, 6, 221>>, <<72, 178, 54, 75>>,
    <<216, 13, 43, 218>>, <<175, 10, 27, 76>>, <<54, 3, 74, 246>>, <<65, 4, 122, 96>>,
    <<223, 96, 239, 195>>, <<168, 103, 223, 85>>, <<49, 110, 142, 239>>, <<70, 105, 190, 121>>,
    <<203, 97, 179, 140>>, <<188, 102, 131, 26>>, <<37, 111, 210, 160>>, <<82, 104, 226, 54>>,
    <<204, 12, 119, 149>>, <<187, 11, 71, 3>>, <<34, 2, 22, 185>>, <<85, 5, 38, 47>>,
    <<197, 186, 59, 190>>, <<178, 189, 11, 40>>, <<43, 180, 90, 146>>, <<92, 179, 106, 4>>,
    <<194, 215, 255, 167>>, <<181, 208, 207, 49>>, <<44, 217, 158, 139>>, <<91, 222, 174, 29>>,
    <<155, 100, 194, 176>>, <<236, 99, 242, 38>>, <<117, 106, 163, 156>>, <<2, 109, 147, 10>>,
    <<156, 9, 6, 169>>, <<235, 14, 54, 63>>, <<114, 7, 103, 133>>, <<5, 0, 87, 19>>,
    <<149, 191, 74, 130>>, <<226, 184, 122, 20>>, <<123, 177, 43, 174>>, <<12, 182, 27, 56>>,
    <<146, 210, 142, 155>>, <<229, 213, 190, 13>>, <<124, 220, 239, 183>>, <<11, 219, 223, 33>>,
    <<134, 211, 210, 212>>, <<241, 212, 226, 66>>, <<104, 221, 179, 248>>, <<31, 218, 131, 110>>,
    <<129, 190, 22, 205>>, <<246, 185, 38, 91>>, <<111, 176, 119, 225>>, <<24, 183, 71, 119>>,
    <<136, 8, 90, 230>>, <<255, 15, 106, 112>>, <<102, 6, 59, 202>>, <<17, 1, 11, 92>>,
    <<143, 101, 158, 255>>, <<248, 98, 174, 105>>, <<97, 107, 255, 211>>, <<22, 108, 207, 69>>,
    <<160, 10, 226, 120>>, <<215, 13, 210, 238>>, <<78, 4, 131, 84>>, <<57, 3, 179, 194>>,
    <<167, 103, 38, 97>>, <<208, 96, 22, 247>>, <<73, 105, 71, 77>>, <<62, 110, 119, 219>>,
    <<174, 209, 106, 74>>, <<217, 214, 90, 220>>, <<64, 223, 11, 102>>, <<55, 216, 59, 240>>,
    <<169, 188, 174, 83>>, <<222, 187, 158, 197>>, <<71, 178, 207, 127>>, <<48, 181, 255, 233>>,
    <<189, 189, 242, 28>>, <<202, 186, 194, 138>>, <<83, 179, 147, 48>>, <<36, 180, 163, 166>>,
    <<186, 208, 54, 5>>, <<205, 215, 6, 147>>, <<84, 222, 87, 41>>, <<35, 217, 103, 191>>,
    <<179, 102, 122, 46>>, <<196, 97, 74, 184>>, <<93, 104, 27, 2>>, <<42, 111, 43, 148>>,
    <<180, 11, 190, 55>>, <<195, 12, 142, 161>>, <<90, 5, 223, 27>>, <<45, 2, 239, 141>>
  >>

\* one step of Hasher::update: the state c after the byte b
CrcStep(c, b) == Xor32(CrcTable[Xor8(c[4], b) + 1], Shr8(c))

\* Hasher::update over buf[lo..hi] from the state c.  The bytes are folded
\* left to right; the range is halved (and the left half bound before the
\* right one is entered) only to keep the evaluation shallow.
RECURSIVE CrcUpdate(_, _, _, _)
CrcUpdate(c, buf, lo, hi) ==
    IF lo > hi THEN c
    ELSE IF lo = hi THEN CrcStep(c, buf[lo])
    ELSE LET mid == (lo + hi) \div 2
         IN  CHOOSE r \in {CrcUpdate(l, buf, mid + 1, hi) : l \in {CrcUpdate(c, buf, lo, mid)}} : TRUE

\* crc32fast::Hasher::new(); update(buf); finalize()
Crc32(buf) ==
    Xor32(CrcUpdate(<<255, 255, 255, 255>>, buf, 1, Len(buf)), <<255, 255, 255, 255>>)

(***************************************************************************)
(* prost's length delimiter (LEB128 varint).                               *)
(***************************************************************************)
RECURSIVE encode_length_delimiter(_)
encode_length_delimiter(n) ==
    IF n < 128 THEN <<n>>
    ELSE <<128 + (n % 128)>> \o encode_length_delimiter(n \div 128)

RECURSIVE length_delimiter_len(_)
length_delimiter_len(n) ==
    IF n < 128 THEN 1 ELSE 1 + length_delimiter_len(n \div 128)

Pow128(n) == IF n = 0 THEN 1 ELSE IF n = 1 THEN 128 ELSE IF n = 2 THEN 16384
             ELSE IF n = 3 THEN 2097152 ELSE 268435456

\* the 7-bit group d at place count keeps the value below 2^31, where the
\* model still counts
group_fits(d, count) == d = 0 \/ count <= 3 \/ (count = 4 /\ d <= 7)

\* prost's decode_varint on the bytes buf[i..]: [ok, value, next, huge,
\* groups], next the index of the first byte not consumed.  count is the
\* number of bytes already consumed, groups their 7-bit groups.  An empty
\* buffer, a buffer that ends inside the varint, a varint longer than 10
\* bytes or one that overflows 64 bits is an error.  A value of 2^31
\* and more is huge: groups holds the exact number, value holds -1.
RECURSIVE decode_varint(_, _, _, _, _)
decode_varint(buf, i, count, acc, groups) ==
    IF i > Len(buf) \/ count = 10
    THEN [ok |-> FALSE, value |-> 0, next |-> i, huge |-> FALSE, groups |-> <<>>]
    ELSE IF buf[i] < 128
    THEN IF count = 9 /\ buf[i] >= 2
         THEN [ok |-> FALSE, value |-> 0, next |-> i, huge |-> FALSE, groups |-> <<>>]
         ELSE [ok     |-> TRUE,
               value  |-> IF acc < 0 \/ ~group_fits(buf[i], count) THEN -1
                          ELSE acc + buf[i] * Pow128(count),
               next   |-> i + 1,
               huge   |-> acc < 0 \/ ~group_fits(buf[i], count),
               groups |-> Append(groups, buf[i])]
    ELSE decode_varint(buf, i + 1, count + 1,
                       IF acc < 0 \/ ~group_fits(buf[i] - 128, count) THEN -1
                       ELSE acc + (buf[i] - 128) * Pow128(count),
                       Append(groups, buf[i] - 128))

decode_length_delimiter(buf, i) == decode_varint(buf, i, 0, 0, <<>>)

\* usize addition x + y of two decoded sizes, by their 7-bit groups; the
\* tenth group holds bit 63 alone
RECURSIVE carry_into(_, _, _)
carry_into(x, y, place) ==
    IF place = 0 THEN 0
    ELSE ((IF place <= Len(x) THEN x[place] ELSE 0)
          + (IF place <= Len(y) THEN y[place] ELSE 0)
          + carry_into(x, y, place - 1)) \div 128

\* what x + y has from bit 63 upwards: 1 and more when the sum is more
\* than isize::MAX, the most bytes a Vec can be asked for.  The two sizes
\* come from at most 10 header bytes, so that the sum stays below 2^64
top_of_sum(x, y) ==
    (IF Len(x) = 10 THEN x[10] ELSE 0) + (IF Len(y) = 10 THEN y[10] ELSE 0)
        + carry_into(x, y, 9)


(***************************************************************************)
(* LogRecord and its codec.                                                *)
(***************************************************************************)
Normal == "Normal"
Deleted == "Deleted"

LogRecord(k, v, t) == [key |-> k, value |-> v, record_type |-> t]

\* impl From<LogRecordType> for u8
TypeToU8(t) == IF t = Normal THEN 1 ELSE 2

\* impl TryFrom<u8> for LogRecordType
TypeFromU8(b) == IF b = 1 THEN Normal ELSE IF b = 2 THEN Deleted ELSE "Invalid"

\* Type | KeySize | ValueSize | Key | Value
compress(r) ==
    <<TypeToU8(r.record_type)>>
        \o encode_length_delimiter(Len(r.key))
        \o encode_length_delimiter(Len(r.value))
        \o r.key \o r.value

crc(r) == Crc32(compress(r))

\* CRC (big-endian u32) | Type | KeySize | ValueSize | Key | Value
encode(r) == crc(r) \o compress(r)

size(r) == Len(encode(r))

(***************************************************************************)
(* DataFile::read.  f is the content of the file.  The outcome is          *)
(* Some(record), None (end of file), an error, a panic, or the end of the  *)
(* process where an allocation fails.                                      *)
(*                                                                         *)
(* An offset is a u64; one above i64::MAX is written as the negative       *)
(* number with the same 64 bits (2^64 - k as -k), so that a subtraction    *)
(* which wraps is the plain subtraction.  Engine::append_log_record of a   *)
(* build without overflow checks is the only source of such an offset;     *)
(* every other offset is within the file.  pread takes the offset as an    *)
(* off_t and refuses a negative one.                                       *)
(*                                                                         *)
(* BytesMut::zeroed(key_size + value_size) asks the allocator for as many  *)
(* bytes as the header says.  Whether a request for more bytes than the    *)
(* file holds is granted depends on the memory of the machine and on its   *)
(* limits: `granted` is that outcome.  Granted, the read of the payload    *)
(* fails at the end of the file; refused, the process ends.                *)
(***************************************************************************)
Some(r) == [tag |-> "Some", record |-> r]
ReadNone == [tag |-> "None", record |-> LogRecord(<<>>, <<>>, Normal)]
ReadErr(e) == [tag |-> e, record |-> LogRecord(<<>>, <<>>, Normal)]

\* the number of header bytes read for `remaining` bytes left, or -1 where
\* the match falls through to unreachable!()
header_len(remaining) ==
    IF remaining < MAX_HEADER_SZ THEN remaining
    ELSE IF remaining > MAX_HEADER_SZ THEN MAX_HEADER_SZ
    ELSE -1

read(f, offset, granted) ==
    LET remaining == Len(f) - offset
        n         == header_len(remaining)
    IN
    IF remaining = 0 THEN ReadNone
    ELSE IF n < 0 THEN ReadErr("Panic")              \* unreachable!()
    ELSE IF offset < 0 THEN ReadErr("FailToReadFromFile")  \* pread: EINVAL
    ELSE IF n < 5 THEN ReadErr("Panic")              \* get_u32 / get_u8 past the end
    ELSE
    LET header == SubSeq(f, offset + 1, offset + n)
        stored == SubSeq(header, 1, 4)
        tbyte  == header[5]
        ks     == decode_length_delimiter(header, 6)
    IN
    IF ~ks.ok THEN ReadErr("DatafileCorrupted")
    ELSE
    LET vs == decode_length_delimiter(header, ks.next) IN
    IF ~vs.ok THEN ReadErr("DatafileCorrupted")
    ELSE IF ks.value = 0 /\ vs.value = 0 THEN ReadNone
    ELSE IF top_of_sum(ks.groups, vs.groups) >= 1
    THEN ReadErr("Panic")                            \* vec![0; len]: capacity overflow
    ELSE IF ks.huge \/ vs.huge
    THEN IF granted THEN ReadErr("FailToReadFromFile")   \* the payload read
         ELSE ReadErr("ProcessAborted")                  \* BytesMut::zeroed
    ELSE
    LET header_size == 5 + length_delimiter_len(ks.value) + length_delimiter_len(vs.value)
        kv_from     == offset + header_size
    IN
    IF ks.value > (Len(f) - kv_from) - vs.value
    THEN IF granted THEN ReadErr("FailToReadFromFile")   \* the payload read
         ELSE ReadErr("ProcessAborted")                  \* BytesMut::zeroed
    ELSE IF TypeFromU8(tbyte) = "Invalid" THEN ReadErr("DatafileCorrupted")
    ELSE
    LET r == LogRecord(SubSeq(f, kv_from + 1, kv_from + ks.value),
                       SubSeq(f, kv_from + ks.value + 1, kv_from + ks.value + vs.value),
                       TypeFromU8(tbyte))
    IN  IF stored # crc(r) THEN ReadErr("DatafileCorrupted") ELSE Some(r)

(***************************************************************************)
(* The inputs of the model: keys, values and options.  With one-byte keys  *)
(* the encoded records are 8 bytes (empty value, and every Deleted         *)
(* record), 9 bytes and 15 bytes long.                                     *)
(***************************************************************************)
Keys == {<<>>, <<97>>, <<98>>}
Values == {<<>>, <<120>>, <<49, 50, 51, 52, 53, 54, 55>>}

VARIABLES
    options,      \* Options: data_file_size, sync_writes
    files,        \* the directory: file-id -> the bytes of <file-id>.data
    synced,       \* file-id -> the length of the prefix the last fsync covered
    status,       \* "open", or how the engine was lost: "failed", "panicked",
                  \* "aborted"
    active_file,  \* Engine.active_file: [id, offset]
    idle_file,    \* Engine.idle_file: file-id -> [id, offset]
    index,        \* Engine.index (BTree): key -> LogRecordPos
    last,         \* the last call and what it returned
    appended,     \* history: the records appended by successful calls, in call order
    opens,        \* history: the number of times the directory was opened again
    dir,          \* the directory itself: [exists, others], others the names of
                  \* the entries that are not <9 digits>.data segment files
    iter,         \* a BtreeIterator: [made, items, index, reverse, filter]
    seen,         \* history of the iterator: [snapshot, yielded, nones, late, fresh,
                  \* sought, rewound]
    batch,        \* a WriteBatch: [made, pending_writes, batch_size]
    seq_no,       \* Engine.seq_no, the sequence counter of the commits
    batch_commit_lock, \* Engine.batch_commit_lock is held
    callers,      \* the threads that share the engine, each with a WriteBatch of
                  \* its own: caller -> [pc, pending_writes, batch_size]
    acquired,     \* history: the commits in the order they took the commit
                  \* lock: [caller, seq_no, behind], seq_no the number obtained
                  \* (<<>> before fetch_add), behind the callers that waited
                  \* for the lock when it was taken
    faults,       \* history: the number of calls that failed on file I/O
    inflight,     \* history: the record of the call a crash stopped, if any
    profile       \* the build: "dev" checks integer arithmetic for overflow and
                  \* panics, "release" wraps; "either" as long as no operation
                  \* has overflowed, the two builds behaving alike till then

vars == <<options, files, synced, status, active_file, idle_file, index, last,
          appended, opens, dir, iter, seen, batch, seq_no, batch_commit_lock, callers,
          acquired, faults, inflight, profile>>

\* the write batch and what a commit takes from the engine
held == <<batch, seq_no, batch_commit_lock, callers, acquired>>

\* what the engine's operations never touch
aux == <<dir, iter, seen, held, faults, inflight, profile>>

EmptyMap == <<>>

DataFile(id, offset) == [id |-> id, offset |-> offset]
LogRecordPos(file_id, offset) == [file_id |-> file_id, offset |-> offset]

Call(op, key, value, res, out) ==
    [op |-> op, key |-> key, value |-> value, res |-> res, out |-> out]

(***************************************************************************)
(* BTree: the index.                                                       *)
(***************************************************************************)
\* Indexer::put: insert or overwrite
index_put(idx, key, pos) == (key :> pos) @@ idx

\* Indexer::get
index_has(idx, key) == key \in DOMAIN idx

\* Indexer::delete: remove the entry, if any
index_delete(idx, key) == [k \in (DOMAIN idx) \ {key} |-> idx[k]]

(***************************************************************************)
(* Engine::append_log_record.  An engine together with its directory is    *)
(* the record e = [active, idle, files, synced].                           *)
(***************************************************************************)
World(active, idle, fs, sy) == [active |-> active, idle |-> idle, files |-> fs, synced |-> sy]

\* a rotation check that looks at the offset alone
must_rotate_offset_only(offset, record_len, data_file_size) == offset > data_file_size

\* the check whether the active datafile can hold the log record
must_rotate(offset, record_len, data_file_size) == offset + record_len > data_file_size

\* the position returned: the offset where the record starts
record_start(offset_after, record_len) == offset_after - record_len

\* FileIO::write: File::write is called once and takes n bytes of the
\* buffer, 1 <= n <= Len(buf); these are appended to the file and n is
\* returned
file_write(f, buf, n) == f \o SubSeq(buf, 1, n)

\* a sync that does nothing
file_sync_skipped(fs, sy, fid) == sy

\* DataFile::sync of the file fid: all its bytes are durable
file_sync(fs, sy, fid) == [sy EXCEPT ![fid] = Len(fs[fid])]

\* DataFile::new(dir, fid): the file is created empty if absent; the
\* datafile's offset is the file's length
datafile_create(fs, fid) == IF fid \in DOMAIN fs THEN fs ELSE (fid :> <<>>) @@ fs
datafile_open(fs, fid) == DataFile(fid, Len(fs[fid]))

\* sync the active file, open a fresh one, swap the full one out
rotate(e, fresh) ==
    World(datafile_open(datafile_create(e.files, fresh), fresh),
          (e.active.id :> e.active) @@ e.idle,
          datafile_create(e.files, fresh),
          IF fresh \in DOMAIN e.files
          THEN file_sync(e.files, e.synced, e.active.id)
          ELSE (fresh :> 0) @@ file_sync(e.files, e.synced, e.active.id))

\* a rotation that skips a file-id
make_room_skipping(opts, e, record_len) ==
    IF must_rotate(e.active.offset, record_len, opts.data_file_size)
    THEN rotate(e, e.active.id + 2)
    ELSE e

make_room(opts, e, record_len) ==
    IF must_rotate(e.active.offset, record_len, opts.data_file_size)
    THEN rotate(e, e.active.id + 1)
    ELSE e

\* the write to the active file, of which the kernel takes n bytes, the
\* sync under sync_writes, the position.  DataFile::write adds n to the
\* offset; the position is the offset after the write less the length of
\* the record, whatever n was (below zero: the subtraction overflows)
write_record(opts, e, record, n) ==
    [active |-> DataFile(e.active.id, e.active.offset + n),
     idle   |-> e.idle,
     files  |-> [e.files EXCEPT ![e.active.id] = file_write(@, record, n)],
     synced |-> IF opts.sync_writes
                THEN [e.synced EXCEPT ![e.active.id] = Len(e.files[e.active.id]) + n]
                ELSE e.synced,
     before |-> e.active.offset,
     len    |-> Len(record),
     taken  |-> n,
     bytes  |-> record,
     pos    |-> LogRecordPos(e.active.id,
                             record_start(e.active.offset + n, Len(record)))]

append_log_record(opts, e, r, n) ==
    write_record(opts, make_room(opts, e, size(r)), encode(r), n)

\* the numbers of bytes the kernel takes of a short write
ShortCounts == {1, 7}

\* what a write of len bytes can return: the whole length or a short count
taken_counts(len) == {len} \cup {n \in ShortCounts : n < len}

\* the lengths of the records put and delete append: a write that takes
\* the whole buffer takes this many bytes
put_len(key, value) == size(LogRecord(key, value, Normal))
delete_len(key) == size(LogRecord(key, <<>>, Deleted))

(***************************************************************************)
(* Engine::at and Engine::get.                                             *)
(***************************************************************************)
Ret(res, out) == [res |-> res, out |-> out]

\* what Engine::at makes of the record read
at_record(rd) ==
    IF rd.tag = "None" THEN Ret("InternalError", <<>>)
    ELSE IF rd.tag # "Some" THEN Ret(rd.tag, <<>>)
    ELSE IF rd.record.record_type = Normal THEN Ret("Ok", rd.record.value)
    ELSE Ret("KeyNotFound", <<>>)

at(active, idle, fs, pos, granted) ==
    IF active.id = pos.file_id THEN at_record(read(fs[active.id], pos.offset, granted))
    ELSE IF pos.file_id \notin DOMAIN idle THEN Ret("DatafileNotFound", <<>>)
    ELSE at_record(read(fs[idle[pos.file_id].id], pos.offset, granted))

get(active, idle, idx, fs, key, granted) ==
    IF key = <<>> THEN Ret("EmptyKey", <<>>)
    ELSE IF ~index_has(idx, key) THEN Ret("KeyNotFound", <<>>)
    ELSE at(active, idle, fs, idx[key], granted)

\* Engine::get on the current state, where the machine has the memory the
\* read asks for
Get(key) == get(active_file, idle_file, index, files, key, TRUE)

(***************************************************************************)
(* Engine::new on a directory that exists: load_datafiles, the index       *)
(* rebuild (BTree::index) and the choice of the active file.               *)
(***************************************************************************)
\* datafiles opened with their offset at the start of the file
load_datafiles_rewound(fs) == [fid \in DOMAIN fs |-> DataFile(fid, 0)]

\* load_datafiles: one DataFile per <id>.data, its offset the file's length
load_datafiles(fs) == [fid \in DOMAIN fs |-> DataFile(fid, Len(fs[fid]))]

\* the orders in which HashMap::values() may yield the datafiles
Orders(S) ==
    {o \in [1..Cardinality(S) -> S] : \A i, j \in DOMAIN o : i # j => o[i] # o[j]}

\* the loop over one datafile, from `offset`: [tag, index]
RECURSIVE index_datafile(_, _, _, _, _)
index_record(idx, f, fid, offset, rd, granted) ==
    IF rd.tag = "None" THEN [tag |-> "Ok", index |-> idx]
    ELSE IF rd.tag # "Some" THEN [tag |-> rd.tag, index |-> idx]
    ELSE index_datafile(
            IF rd.record.record_type = Normal
            THEN index_put(idx, rd.record.key, LogRecordPos(fid, offset))
            ELSE index_delete(idx, rd.record.key),
            f, fid, offset + size(rd.record), granted)

index_datafile(idx, f, fid, offset, granted) ==
    index_record(idx, f, fid, offset, read(f, offset, granted), granted)

\* BTree::index over the datafiles in the order given, from the i-th on
RECURSIVE btree_index(_, _, _, _, _)
btree_next(one, fs, order, i, granted) ==
    IF one.tag # "Ok" THEN one ELSE btree_index(one.index, fs, order, i + 1, granted)

btree_index(idx, fs, order, i, granted) ==
    IF i > Len(order) THEN [tag |-> "Ok", index |-> idx]
    ELSE btree_next(index_datafile(idx, fs[order[i]], order[i], 0, granted),
                    fs, order, i, granted)

Max(S) == CHOOSE m \in S : \A x \in S : x <= m

\* the datafile with the smallest fid
active_fid_lowest(datafiles) ==
    CHOOSE m \in DOMAIN datafiles : \A x \in DOMAIN datafiles : m <= x

\* the datafile with the largest fid is the active one
active_fid(datafiles) == Max(DOMAIN datafiles)

engine_of(datafiles, built, afid) ==
    [tag    |-> built.tag,
     index  |-> built.index,
     active |-> datafiles[afid],
     idle   |-> [fid \in (DOMAIN datafiles) \ {afid} |-> datafiles[fid]]]

engine_new(fs, order, granted) ==
    engine_of(load_datafiles(fs), btree_index(EmptyMap, fs, order, 1, granted),
              active_fid(load_datafiles(fs)))

(***************************************************************************)
(* The directory at open.  A name is a sequence of bytes.  The segment     *)
(* files <9 digits>.data are the variable `files`; d.others holds the      *)
(* names of the other entries, d.exists whether the directory is there.    *)
(***************************************************************************)
DATAFILE_SUFFIX == <<46, 100, 97, 116, 97>>      \* ".data"

\* str::ends_with
ends_with(name, suffix) ==
    /\ Len(name) >= Len(suffix)
    /\ SubSeq(name, Len(name) - Len(suffix) + 1, Len(name)) = suffix

\* OsStr::to_str is Some: the name is valid UTF-8.  Of the bytes used in
\* the names of this model exactly those below 128 form valid UTF-8.
to_str_ok(name) == \A i \in DOMAIN name : name[i] < 128

\* split('.') ... [0]: the text before the first '.'
RECURSIVE split_first(_)
split_first(name) ==
    IF name = <<>> \/ Head(name) = 46 THEN <<>>
    ELSE <<Head(name)>> \o split_first(Tail(name))

\* the digits u32::from_str reads: one leading '+' is dropped unless it is
\* the whole text
unsigned_digits(text) ==
    IF Len(text) > 1 /\ Head(text) = 43 THEN Tail(text) ELSE text

\* the value of the digits, or -1 once it exceeds u32::MAX = 4294967295
RECURSIVE digits_value(_, _)
digits_value(ds, acc) ==
    IF ds = <<>> THEN acc
    ELSE IF acc > 429496729 \/ (acc = 429496729 /\ Head(ds) > 53) THEN -1
    ELSE digits_value(Tail(ds), acc * 10 + (Head(ds) - 48))

\* str::parse::<u32>: [ok, value]
parse_u32(text) ==
    IF text = <<>> THEN [ok |-> FALSE, value |-> 0]
    ELSE IF \E i \in DOMAIN unsigned_digits(text) :
               unsigned_digits(text)[i] < 48 \/ unsigned_digits(text)[i] > 57
    THEN [ok |-> FALSE, value |-> 0]
    ELSE IF digits_value(unsigned_digits(text), 0) < 0 THEN [ok |-> FALSE, value |-> 0]
    ELSE [ok |-> TRUE, value |-> digits_value(unsigned_digits(text), 0)]

\* format!("{:09}{}", id, DATAFILE_SUFFIX), for id below 10^9
file_name(id) == [i \in 1..9 |-> 48 + ((id \div (10 ^ (9 - i))) % 10)] \o DATAFILE_SUFFIX

\* what the loop of load_datafiles does with one directory entry
entry_kind(name) ==
    IF ~to_str_ok(name) THEN [tag |-> "Panic", fid |-> 0]
    ELSE IF ~ends_with(name, DATAFILE_SUFFIX) THEN [tag |-> "Skip", fid |-> 0]
    ELSE IF ~parse_u32(split_first(name)).ok THEN [tag |-> "DatafileCorrupted", fid |-> 0]
    ELSE [tag |-> "Segment", fid |-> parse_u32(split_first(name)).value]

\* fs::read_dir: the names of the entries
read_dir(fs, others) == {file_name(fid) : fid \in DOMAIN fs} \cup others

\* the entries on which the loop stops, and the ids of those it turns
\* into datafiles
Stoppers(names) == {n \in names : entry_kind(n).tag \in {"Panic", "DatafileCorrupted"}}
SegmentIdsOf(names) == {entry_kind(n).fid : n \in {m \in names : entry_kind(m).tag = "Segment"}}

\* DataFile::new for each of the ids: a missing <id>.data is created empty
create_all(fs, fids) ==
    [fid \in (DOMAIN fs) \cup fids |-> IF fid \in DOMAIN fs THEN fs[fid] ELSE <<>>]

\* options::check_options (the path of the model is always valid UTF-8)
check_options(opts) == IF opts.data_file_size = 0 THEN "DatafileSizeTooSmall" ELSE "Ok"

\* Engine::new, lines 25-27: create_dir_all is called when the directory
\* is already there, and only then; the result is whether it exists after
ensure_dir(exists) == exists

\* Everything Engine::new does before the index is built, as the set of
\* its outcomes [tag, files].  read_dir yields the entries in no particular
\* order and the loop stops at the first entry it cannot take, so a failed
\* scan ends with the error of any one of the stoppers, after the datafiles
\* of any subset of the other entries have been opened (and created).
load_outcomes(opts, d, fs) ==
    IF check_options(opts) # "Ok" THEN {[tag |-> check_options(opts), files |-> fs]}
    ELSE IF ~ensure_dir(d.exists) THEN {[tag |-> "ReadDbDirFail", files |-> fs]}
    ELSE IF Stoppers(read_dir(fs, d.others)) = {}
    THEN {[tag |-> "Ok", files |-> create_all(fs, SegmentIdsOf(read_dir(fs, d.others)))]}
    ELSE {[tag |-> entry_kind(n).tag, files |-> create_all(fs, SegmentIdsOf(done))] :
            n \in Stoppers(read_dir(fs, d.others)),
            done \in SUBSET (d.others \ Stoppers(d.others))}

\* Engine::new on a directory without datafiles: a fresh active datafile
engine_fresh(fs) ==
    [tag    |-> "Ok",
     index  |-> EmptyMap,
     active |-> datafile_open(datafile_create(fs, INITIAL_DATAFILE_ID), INITIAL_DATAFILE_ID),
     idle   |-> EmptyMap,
     files  |-> datafile_create(fs, INITIAL_DATAFILE_ID)]

\* no engine came out of Engine::new
engine_failed(tag, fs) ==
    [tag    |-> tag,
     index  |-> EmptyMap,
     active |-> DataFile(INITIAL_DATAFILE_ID, 0),
     idle   |-> EmptyMap,
     files  |-> fs]

\* Engine::new on the datafiles fs, replayed in the order given
with_files(e, fs) ==
    [tag |-> e.tag, index |-> e.index, active |-> e.active, idle |-> e.idle, files |-> fs]

engine_loaded(fs, order, granted) == with_files(engine_new(fs, order, granted), fs)

\* the engines Engine::new may return after the scan ended as s
engines_after(s) ==
    IF s.tag # "Ok" THEN {engine_failed(s.tag, s.files)}
    ELSE IF DOMAIN s.files = {} THEN {engine_fresh(s.files)}
    ELSE {engine_loaded(s.files, order, granted) :
              order \in Orders(DOMAIN s.files), granted \in BOOLEAN}

(***************************************************************************)
(* Iterators.  BTree::iterator copies the entries of the tree, in key      *)
(* order, into a vector of its own; BtreeIterator walks that vector.       *)
(***************************************************************************)
\* Ord for Vec<u8>: byte-lexicographic; -1, 0, 1 for Less, Equal, Greater
RECURSIVE cmp(_, _)
cmp(x, y) ==
    IF x = <<>> THEN (IF y = <<>> THEN 0 ELSE -1)
    ELSE IF y = <<>> THEN 1
    ELSE IF x[1] < y[1] THEN -1
    ELSE IF x[1] > y[1] THEN 1
    ELSE cmp(Tail(x), Tail(y))

\* BTreeMap::iter: the entries <<key, pos>> in ascending key order
RECURSIVE tree_iter(_)
tree_iter(idx) ==
    IF DOMAIN idx = {} THEN <<>>
    ELSE LET k == CHOOSE k \in DOMAIN idx : \A o \in DOMAIN idx : cmp(k, o) <= 0
         IN  <<(<<k, idx[k]>>)>> \o tree_iter([o \in (DOMAIN idx) \ {k} |-> idx[o]])

\* Vec::reverse
reverse(items) == [i \in 1..Len(items) |-> items[Len(items) + 1 - i]]

filter_accepts(filter, key) == filter = "all" \/ key # <<97>>

\* BTree::iterator (engine: made by Engine::iter, which borrows the engine)
iterator(idx, rev, filter, engine) ==
    [made    |-> TRUE,
     items   |-> IF rev THEN reverse(tree_iter(idx)) ELSE tree_iter(idx),
     index   |-> 0,
     reverse |-> rev,
     filter  |-> filter,
     engine  |-> engine]

\* an iterator that reads the tree each time instead of its own vector
items_live(it, idx) == IF it.reverse THEN reverse(tree_iter(idx)) ELSE tree_iter(idx)

\* the vector a BtreeIterator walks
items_of(it, idx) == it.items

\* BtreeIterator::next: the first entry at or after index that the filter
\* accepts, and the index after it
RECURSIVE scan(_, _, _)
scan(items, i, filter) ==
    IF i >= Len(items) THEN [found |-> FALSE, item |-> <<>>, index |-> i]
    ELSE IF filter_accepts(filter, items[i + 1][1])
         THEN [found |-> TRUE, item |-> items[i + 1], index |-> i + 1]
         ELSE scan(items, i + 1, filter)

\* slice::binary_search_by over items[left..right) with the order of seek:
\* the index of the entry equal to key, else the index where it would go
RECURSIVE binary_search_by(_, _, _, _, _)
binary_search_by(items, key, rev, left, right) ==
    IF left >= right THEN left
    ELSE LET mid == left + ((right - left) \div 2)
             c   == IF rev THEN 0 - cmp(items[mid + 1][1], key)
                    ELSE cmp(items[mid + 1][1], key)
         IN  IF c = 0 THEN mid
             ELSE IF c < 0 THEN binary_search_by(items, key, rev, mid + 1, right)
             ELSE binary_search_by(items, key, rev, left, mid)

\* BtreeIterator::seek
seek(it, key) ==
    [it EXCEPT !.index = binary_search_by(it.items, key, it.reverse, 0, Len(it.items))]

\* a rewind that leaves the iterator where it is
rewind_in_place(it) == it

\* BtreeIterator::rewind
rewind(it) == [it EXCEPT !.index = 0]

\* no write batch has been made
NoBatch == [made |-> FALSE, pending_writes |-> <<>>, batch_size |-> 0]

\* no iterator has been constructed
NoIter ==
    [made |-> FALSE, items |-> <<>>, index |-> 0, reverse |-> FALSE, filter |-> "all",
     engine |-> FALSE]

\* what has been seen of the iterator: the index when it was constructed,
\* the entries next returned, the Nones it returned, the entries it returned
\* after a None, and whether it still runs from its initial position
\* (fresh), the key of the seek it runs from (sought: <<key>>, or <<>>), and
\* whether it runs from a rewind (rewound)
NoSeen ==
    [snapshot |-> <<>>, yielded |-> <<>>, nones |-> 0, late |-> 0, fresh |-> FALSE,
     sought |-> <<>>, rewound |-> FALSE]

(***************************************************************************)
(* The initial state: an engine opened on an empty directory.              *)
(***************************************************************************)
Init ==
    /\ options \in [data_file_size : {12, 17}, sync_writes : BOOLEAN]
    /\ files = (INITIAL_DATAFILE_ID :> <<>>)
    /\ synced = (INITIAL_DATAFILE_ID :> 0)
    /\ status = "open"
    /\ active_file = DataFile(INITIAL_DATAFILE_ID, 0)
    /\ idle_file = EmptyMap
    /\ index = EmptyMap
    /\ last = Call("open", <<>>, <<>>, "Ok", <<>>)
    /\ appended = <<>>
    /\ opens = 0
    /\ dir = [exists |-> TRUE, others |-> {}]
    /\ iter = NoIter
    /\ seen = NoSeen
    /\ batch = NoBatch
    /\ seq_no = 0
    /\ batch_commit_lock = FALSE
    /\ callers = EmptyMap
    /\ acquired = <<>>
    /\ faults = 0
    /\ inflight = <<>>
    /\ profile = "either"

(***************************************************************************)
(* The operations.                                                         *)
(***************************************************************************)
\* what the history keeps of one successful append
Entry(r, a) ==
    [record |-> r, pos |-> a.pos, len |-> a.len, before |-> a.before, bytes |-> a.bytes,
     taken |-> a.taken]

Here == World(active_file, idle_file, files, synced)

\* a put that accepts every key
put_accepts_all(key) == FALSE

\* Engine::put rejects the empty key before anything else
put_rejects(key) == key = <<>>

\* Engine::put, with the number of bytes n the kernel takes of the record.
\* When the offset after the write is less than the length of the record
\* the subtraction that gives the position overflows, after the write (and
\* the sync) and before the index is touched.  In a build that checks
\* arithmetic the call panics; in one that does not the position wraps,
\* the call returns Ok and the index takes the wrapped position.
Put(key, value, n) ==
    /\ status = "open"
    /\ IF put_rejects(key)
       THEN /\ last' = Call("put", key, value, "EmptyKey", <<>>)
            /\ UNCHANGED <<options, files, synced, status, active_file, idle_file,
                           index, appended, opens, aux>>
       ELSE /\ Len(appended) < MaxWrites
            /\ \E a \in {append_log_record(options, Here, LogRecord(key, value, Normal), n)} :
                 /\ files' = a.files
                 /\ synced' = a.synced
                 /\ active_file' = a.active
                 /\ idle_file' = a.idle
                 /\ \E build \in (IF a.pos.offset >= 0 THEN {profile}
                                   ELSE IF profile = "either" THEN {"dev", "release"}
                                   ELSE {profile}) :
                      /\ profile' = build
                      /\ IF a.pos.offset < 0 /\ build = "dev"
                         THEN /\ last' = Call("put", key, value, "Panic", <<>>)
                              /\ status' = "panicked"
                              /\ UNCHANGED <<index, appended>>
                         ELSE /\ index' = index_put(index, key, a.pos)
                              /\ appended' = Append(appended,
                                                     Entry(LogRecord(key, value, Normal), a))
                              /\ last' = Call("put", key, value, "Ok", <<>>)
                              /\ UNCHANGED status
            /\ UNCHANGED <<options, opens, dir, iter, seen, held, faults, inflight>>

\* a delete that does not look the key up first
delete_unchecked(idx, key) == key = <<>>

\* Engine::delete rejects the empty key, then a key absent from the index
delete_rejects(idx, key) == key = <<>> \/ ~index_has(idx, key)

\* Engine::delete, with the number of bytes n the kernel takes of the record
Delete(key, n) ==
    /\ status = "open"
    /\ IF delete_rejects(index, key)
       THEN /\ last' = Call("delete", key, <<>>,
                            IF key = <<>> THEN "EmptyKey" ELSE "KeyNotFound", <<>>)
            /\ UNCHANGED <<options, files, synced, status, active_file, idle_file,
                           index, appended, opens, aux>>
       ELSE /\ Len(appended) < MaxWrites
            /\ \E a \in {append_log_record(options, Here, LogRecord(key, <<>>, Deleted), n)} :
                 /\ files' = a.files
                 /\ synced' = a.synced
                 /\ active_file' = a.active
                 /\ idle_file' = a.idle
                 /\ \E build \in (IF a.pos.offset >= 0 THEN {profile}
                                   ELSE IF profile = "either" THEN {"dev", "release"}
                                   ELSE {profile}) :
                      /\ profile' = build
                      /\ IF a.pos.offset < 0 /\ build = "dev"
                         THEN /\ last' = Call("delete", key, <<>>, "Panic", <<>>)
                              /\ status' = "panicked"
                              /\ UNCHANGED <<index, appended>>
                         ELSE /\ index' = index_delete(index, key)
                              /\ appended' = Append(appended,
                                                     Entry(LogRecord(key, <<>>, Deleted), a))
                              /\ last' = Call("delete", key, <<>>, "Ok", <<>>)
                              /\ UNCHANGED status
            /\ UNCHANGED <<options, opens, dir, iter, seen, held, faults, inflight>>

\* how the engine is lost by a call that ended as res, if it is
lost_by(res, st) ==
    IF res = "Panic" THEN "panicked" ELSE IF res = "ProcessAborted" THEN "aborted" ELSE st

\* Engine::get.  A panic inside the read unwinds the caller: the engine is lost.
GetKey(key) ==
    /\ status = "open"
    /\ \E g \in {get(active_file, idle_file, index, files, key, granted) :
                      granted \in BOOLEAN} :
         /\ last' = Call("get", key, <<>>, g.res, g.out)
         /\ status' = lost_by(g.res, status)
    /\ UNCHANGED <<options, files, synced, active_file, idle_file, index, appended, opens,
                   aux>>

\* Engine::sync: the active file and every idle file are fsynced
Sync ==
    /\ status = "open"
    /\ synced' = [fid \in DOMAIN files |-> Len(files[fid])]
    /\ last' = Call("sync", <<>>, <<>>, "Ok", <<>>)
    /\ UNCHANGED <<options, files, status, active_file, idle_file, index, appended, opens,
                   aux>>

\* The engine is dropped (or was lost) and Engine::new opens the directory again.
Reopen ==
    /\ opens < MaxOpens
    /\ \E s \in load_outcomes(options, dir, files) :
         \E e \in engines_after(s) :
             /\ status' = IF e.tag = "Ok" THEN "open" ELSE lost_by(e.tag, "failed")
             /\ active_file' = e.active
             /\ idle_file' = e.idle
             /\ index' = IF e.tag = "Ok" THEN e.index ELSE EmptyMap
             /\ files' = e.files
             /\ synced' = [fid \in DOMAIN e.files |->
                             IF fid \in DOMAIN synced THEN synced[fid] ELSE 0]
             /\ last' = Call("open", <<>>, <<>>, e.tag, <<>>)
    /\ dir' = [dir EXCEPT !.exists = ensure_dir(@)]
    /\ opens' = opens + 1
    /\ UNCHANGED <<options, appended, iter, seen, held, faults, inflight, profile>>

Next ==
    \/ \E key \in Keys, value \in Values : Put(key, value, put_len(key, value))
    \/ \E key \in Keys : Delete(key, delete_len(key))
    \/ \E key \in Keys : GetKey(key)
    \/ Sync
    \/ Reopen

Spec == Init /\ [][Next]_vars

(***************************************************************************)
(* Crashes.  The machine stops; of every file the fsynced prefix survives, *)
(* and of the bytes written after the last fsync any prefix may survive.   *)
(* The engine is lost; the directory can be opened again.                  *)
(***************************************************************************)
\* the directories a crash may leave behind
Survivors(fs, sy) ==
    {cut \in [DOMAIN fs -> 0..Max({Len(fs[fid]) : fid \in DOMAIN fs})] :
        \A fid \in DOMAIN fs : sy[fid] <= cut[fid] /\ cut[fid] <= Len(fs[fid])}

Crash ==
    /\ status = "open"
    /\ opens < MaxOpens
    /\ \E cut \in Survivors(files, synced) :
         files' = [fid \in DOMAIN files |-> SubSeq(files[fid], 1, cut[fid])]
    /\ status' = "crashed"
    /\ last' = Call("crash", <<>>, <<>>, "Ok", <<>>)
    /\ UNCHANGED <<options, synced, active_file, idle_file, index, appended, opens, aux>>

\* what is on disk at the points where Engine::append_log_record can be
\* stopped: before its first system call, after the fsync of the retiring
\* file, after the fresh file is created (and opened), after the write,
\* after the fsync of the record
append_log_record_stopped(opts, e, record, n) ==
    LET rot   == must_rotate(e.active.offset, Len(record), opts.data_file_size)
        room  == make_room(opts, e, Len(record))
        wrote == write_record([opts EXCEPT !.sync_writes = FALSE], room, record, n)
        done  == write_record(opts, room, record, n)
    IN
    {[files |-> e.files, synced |-> e.synced],
     [files |-> room.files, synced |-> room.synced],
     [files |-> wrote.files, synced |-> wrote.synced],
     [files |-> done.files, synced |-> done.synced]}
    \cup
    (IF rot
     THEN {[files |-> e.files, synced |-> file_sync(e.files, e.synced, e.active.id)]}
     ELSE {})

\* the machine stops inside the append of record r: the call never returns
StopInAppend(r, n) ==
    /\ opens < MaxOpens
    /\ Len(appended) < MaxWrites
    /\ \E w \in append_log_record_stopped(options, Here, encode(r), n) :
         \E cut \in Survivors(w.files, w.synced) :
            /\ files' = [fid \in DOMAIN w.files |-> SubSeq(w.files[fid], 1, cut[fid])]
            /\ synced' = w.synced
    /\ status' = "crashed"
    /\ inflight' = <<r>>
    /\ last' = Call("crash", r.key, r.value, "Ok", <<>>)
    /\ UNCHANGED <<options, active_file, idle_file, index, appended, opens, dir, iter,
                   seen, held, faults, profile>>

\* a crash inside Engine::put, past the check of the key
StopInPut(key, value, n) ==
    /\ status = "open"
    /\ ~put_rejects(key)
    /\ StopInAppend(LogRecord(key, value, Normal), n)

\* a crash inside Engine::delete, past the checks of the key
StopInDelete(key, n) ==
    /\ status = "open"
    /\ ~delete_rejects(index, key)
    /\ StopInAppend(LogRecord(key, <<>>, Deleted), n)

(***************************************************************************)
(* Iteration.  An engine takes writes; iterators are made over its index,  *)
(* by Engine::iter (the iterator borrows the engine, which takes no write  *)
(* until the iterator is dropped) or by BTree::iterator (the iterator owns *)
(* its entries and the engine goes on taking writes).                      *)
(***************************************************************************)
IterKeys == {<<97>>, <<97, 98>>, <<98>>}

\* an iterator made by Engine::iter is alive
Borrowed == iter.made /\ iter.engine

\* Engine::iter (engine = TRUE) or BTree::iterator on the engine's index
IterNew(rev, filter, engine) ==
    /\ status = "open"
    /\ iter' = iterator(index, rev, filter, engine)
    /\ seen' = [snapshot |-> index, yielded |-> <<>>, nones |-> 0, late |-> 0,
                fresh |-> TRUE, sought |-> <<>>, rewound |-> FALSE]
    /\ last' = Call("iter", <<>>, <<>>, "Ok", <<>>)
    /\ UNCHANGED <<options, files, synced, status, active_file, idle_file, index,
                   appended, opens, dir, held, faults, inflight, profile>>

\* the iterator is dropped
IterDrop ==
    /\ iter.made
    /\ iter' = NoIter
    /\ seen' = NoSeen
    /\ last' = Call("drop", <<>>, <<>>, "Ok", <<>>)
    /\ UNCHANGED <<options, files, synced, status, active_file, idle_file, index,
                   appended, opens, dir, held, faults, inflight, profile>>

\* BtreeIterator::next, and EngineIterator::next around it: the value is
\* read with Engine::at and unwrapped
IterNext ==
    /\ status = "open"
    /\ iter.made
    /\ seen.nones < MaxNones
    /\ \E n \in {scan(items_of(iter, index), iter.index, iter.filter)} :
         /\ iter' = [iter EXCEPT !.index = n.index]
         /\ IF ~n.found
            THEN /\ last' = Call("next", <<>>, <<>>, "None", <<>>)
                 /\ seen' = [seen EXCEPT !.nones = @ + 1]
                 /\ UNCHANGED status
            ELSE IF ~iter.engine
            THEN /\ last' = Call("next", n.item[1], <<>>, "Some", <<>>)
                 /\ seen' = [seen EXCEPT !.yielded = Append(@, n.item),
                                         !.late = IF seen.nones > 0 THEN @ + 1 ELSE @]
                 /\ UNCHANGED status
            ELSE \E v \in {at(active_file, idle_file, files, n.item[2], granted) :
                                granted \in BOOLEAN} :
                 IF v.res = "Ok"
                 THEN /\ last' = Call("next", n.item[1], <<>>, "Some", v.out)
                      /\ seen' = [seen EXCEPT !.yielded = Append(@, n.item),
                                              !.late = IF seen.nones > 0 THEN @ + 1 ELSE @]
                      /\ UNCHANGED status
                 ELSE /\ last' = Call("next", n.item[1], <<>>,
                                      IF v.res = "ProcessAborted" THEN v.res ELSE "Panic",
                                      <<>>)
                      /\ status' = lost_by(v.res, "panicked")
                      /\ UNCHANGED seen
    /\ UNCHANGED <<options, files, synced, active_file, idle_file, index, appended,
                   opens, dir, held, faults, inflight, profile>>

\* BtreeIterator::seek
IterSeek(key) ==
    /\ status = "open"
    /\ iter.made
    /\ iter' = seek(iter, key)
    /\ seen' = [seen EXCEPT !.yielded = <<>>, !.nones = 0, !.late = 0, !.fresh = FALSE,
                            !.sought = <<key>>, !.rewound = FALSE]
    /\ last' = Call("seek", key, <<>>, "Ok", <<>>)
    /\ UNCHANGED <<options, files, synced, status, active_file, idle_file, index,
                   appended, opens, dir, held, faults, inflight, profile>>

\* BtreeIterator::rewind
IterRewind ==
    /\ status = "open"
    /\ iter.made
    /\ iter' = rewind(iter)
    /\ seen' = [seen EXCEPT !.yielded = <<>>, !.nones = 0, !.late = 0, !.fresh = TRUE,
                            !.sought = <<>>, !.rewound = TRUE]
    /\ last' = Call("rewind", <<>>, <<>>, "Ok", <<>>)
    /\ UNCHANGED <<options, files, synced, status, active_file, idle_file, index,
                   appended, opens, dir, held, faults, inflight, profile>>

InitIter == Init /\ options = [data_file_size |-> 17, sync_writes |-> FALSE]

NextIter ==
    \/ \E key \in IterKeys, value \in {<<>>, <<49, 50, 51, 52, 53, 54, 55>>} :
          ~Borrowed /\ Put(key, value, put_len(key, value))
    \/ \E key \in IterKeys : ~Borrowed /\ Delete(key, delete_len(key))
    \* the filters: the default one, and one that rejects the key "a"
    \/ \E rev \in BOOLEAN, filter \in {"all", "not_a"}, engine \in BOOLEAN :
          IterNew(rev, filter, engine)
    \/ IterNext
    \/ \E key \in IterKeys : IterSeek(key)
    \/ IterRewind
    \/ IterDrop

SpecIter == InitIter /\ [][NextIter]_vars

(***************************************************************************)
(* Opening a directory as it is found: absent, empty, holding segments,    *)
(* holding entries that are not segments.  No engine exists at first.      *)
(***************************************************************************)
\* the segments found: none, or two segments of one record each
FoundFiles ==
    {EmptyMap,
     (0 :> encode(LogRecord(<<97>>, <<>>, Normal)))
        @@ (1 :> encode(LogRecord(<<98>>, <<120>>, Normal)))}

InitOpen ==
    /\ options \in [data_file_size : {0, 17}, sync_writes : {FALSE}]
    \* the other entries: "n", "x.data", "1.t.data", and a name that is not
    \* valid UTF-8
    /\ dir \in [exists : BOOLEAN,
                others : SUBSET {<<110>>, <<120>> \o DATAFILE_SUFFIX,
                                 <<49, 46, 116>> \o DATAFILE_SUFFIX, <<255>>}]
    /\ files \in FoundFiles
    /\ dir.exists \/ (dir.others = {} /\ files = EmptyMap)
    /\ synced = [fid \in DOMAIN files |-> Len(files[fid])]
    /\ status = "closed"
    /\ active_file = DataFile(INITIAL_DATAFILE_ID, 0)
    /\ idle_file = EmptyMap
    /\ index = EmptyMap
    /\ last = Call("none", <<>>, <<>>, "Ok", <<>>)
    /\ appended = <<>>
    /\ opens = 0
    /\ iter = NoIter
    /\ seen = NoSeen
    /\ batch = NoBatch
    /\ seq_no = 0
    /\ batch_commit_lock = FALSE
    /\ callers = EmptyMap
    /\ acquired = <<>>
    /\ faults = 0
    /\ inflight = <<>>
    /\ profile = "either"

SpecOpen == InitOpen /\ [][Next]_vars

\* the engine with sync_writes off or on, and a data_file_size that makes
\* the second record rotate
InitCrash == Init /\ options.data_file_size = 12

NextCrash ==
    \/ \E key \in Keys \ {<<>>}, value \in Values : Put(key, value, put_len(key, value))
    \/ \E key \in Keys \ {<<>>} : Delete(key, delete_len(key))
    \/ Sync
    \/ Reopen
    \/ Crash
    \/ \E key \in Keys \ {<<>>}, value \in Values :
          StopInPut(key, value, put_len(key, value))
    \/ \E key \in Keys \ {<<>>} : StopInDelete(key, delete_len(key))

SpecCrash == InitCrash /\ [][NextCrash]_vars

(***************************************************************************)
(* Short writes.  The kernel may take fewer bytes than the write hands it  *)
(* (a file size limit, a full disk): File::write then returns the count    *)
(* and the call succeeds.                                                  *)
(***************************************************************************)

InitShort ==
    /\ options \in [data_file_size : {12, 24}, sync_writes : BOOLEAN]
    /\ files = (INITIAL_DATAFILE_ID :> <<>>)
    /\ synced = (INITIAL_DATAFILE_ID :> 0)
    /\ status = "open"
    /\ active_file = DataFile(INITIAL_DATAFILE_ID, 0)
    /\ idle_file = EmptyMap
    /\ index = EmptyMap
    /\ last = Call("open", <<>>, <<>>, "Ok", <<>>)
    /\ appended = <<>>
    /\ opens = 0
    /\ dir = [exists |-> TRUE, others |-> {}]
    /\ iter = NoIter
    /\ seen = NoSeen
    /\ batch = NoBatch
    /\ seq_no = 0
    /\ batch_commit_lock = FALSE
    /\ callers = EmptyMap
    /\ acquired = <<>>
    /\ faults = 0
    /\ inflight = <<>>
    /\ profile = "either"

NextShort ==
    \/ \E key \in Keys \ {<<>>}, value \in Values \ {<<>>} :
          \E n \in taken_counts(put_len(key, value)) : Put(key, value, n)
    \/ \E key \in Keys \ {<<>>} : \E n \in taken_counts(delete_len(key)) : Delete(key, n)
    \/ \E key \in Keys \ {<<>>} : GetKey(key)
    \/ Reopen

SpecShort == InitShort /\ [][NextShort]_vars

(***************************************************************************)
(* Write batches.  A WriteBatch borrows the engine: while it lives the     *)
(* engine takes no put or delete of its own, but it answers get.  The      *)
(* batch stages records in pending_writes; commit passes its checks, takes *)
(* the commit lock and a sequence number, and then reaches todo!() at the  *)
(* first staged record.                                                    *)
(***************************************************************************)
BatchValues == {<<>>, <<120>>}
BatchSizes == {1, 2}

\* an insert that keeps the record staged first
stage_keep_first(pending, key, record) ==
    IF key \in DOMAIN pending THEN pending ELSE (key :> record) @@ pending

\* HashMap::insert into pending_writes
stage(pending, key, record) == (key :> record) @@ pending

\* HashMap::remove from pending_writes
unstage(pending, key) == [k \in (DOMAIN pending) \ {key} |-> pending[k]]

\* a delete that looks at the buffer before it looks at the index
batch_delete_buffer_first(pending, idx, key) ==
    IF key \in DOMAIN pending /\ pending[key].record_type = Normal
    THEN unstage(pending, key)
    ELSE IF ~index_has(idx, key) THEN pending
    ELSE stage(pending, key, LogRecord(key, <<>>, Deleted))

\* WriteBatch::delete: what becomes of pending_writes
batch_delete(pending, idx, key) ==
    IF ~index_has(idx, key) THEN unstage(pending, key)
    ELSE stage(pending, key, LogRecord(key, <<>>, Deleted))

\* a commit that does not compare the batch with batch_size
commit_check_unbounded(pending, batch_size) ==
    IF DOMAIN pending = {} THEN "Ok" ELSE "Proceed"

\* WriteBatch::commit, the checks before the commit lock is taken
commit_check(pending, batch_size) ==
    IF Cardinality(DOMAIN pending) = 0 THEN "Ok"
    ELSE IF Cardinality(DOMAIN pending) > batch_size THEN "BatchSizeExceeded"
    ELSE "Proceed"

\* a WriteBatch is made: the buffer is empty
BatchNew(cap) ==
    /\ status = "open"
    /\ ~batch.made
    /\ batch' = [made |-> TRUE, pending_writes |-> EmptyMap, batch_size |-> cap]
    /\ last' = Call("batch_new", <<>>, <<>>, "Ok", <<>>)
    /\ UNCHANGED <<options, files, synced, status, active_file, idle_file, index,
                   appended, opens, dir, iter, seen, seq_no, batch_commit_lock,
                   callers, acquired, faults, inflight, profile>>

\* the WriteBatch is dropped
BatchDrop ==
    /\ batch.made
    /\ ~batch_commit_lock
    /\ batch' = NoBatch
    /\ last' = Call("batch_drop", <<>>, <<>>, "Ok", <<>>)
    /\ UNCHANGED <<options, files, synced, status, active_file, idle_file, index,
                   appended, opens, dir, iter, seen, seq_no, batch_commit_lock,
                   callers, acquired, faults, inflight, profile>>

\* what was staged for the key before the call: <<>> or <<type byte>>
Staged(key) ==
    IF key \in DOMAIN batch.pending_writes
    THEN <<TypeToU8(batch.pending_writes[key].record_type)>>
    ELSE <<>>

\* WriteBatch::put
BatchPut(key, value) ==
    /\ status = "open"
    /\ batch.made
    /\ ~batch_commit_lock
    /\ IF key = <<>>
       THEN /\ last' = Call("batch_put", key, value, "EmptyKey", <<>>)
            /\ UNCHANGED batch
       ELSE /\ batch' = [batch EXCEPT !.pending_writes =
                                        stage(@, key, LogRecord(key, value, Normal))]
            /\ last' = Call("batch_put", key, value, "Ok", Staged(key))
    /\ UNCHANGED <<options, files, synced, status, active_file, idle_file, index,
                   appended, opens, dir, iter, seen, seq_no, batch_commit_lock,
                   callers, acquired, faults, inflight, profile>>

\* WriteBatch::delete
BatchDelete(key) ==
    /\ status = "open"
    /\ batch.made
    /\ ~batch_commit_lock
    /\ IF key = <<>>
       THEN /\ last' = Call("batch_delete", key, <<>>, "EmptyKey", <<>>)
            /\ UNCHANGED batch
       ELSE /\ batch' = [batch EXCEPT !.pending_writes = batch_delete(@, index, key)]
            /\ last' = Call("batch_delete", key, <<>>, "Ok", Staged(key))
    /\ UNCHANGED <<options, files, synced, status, active_file, idle_file, index,
                   appended, opens, dir, iter, seen, seq_no, batch_commit_lock,
                   callers, acquired, faults, inflight, profile>>

\* AtomicUsize::fetch_add(1, SeqCst): the counter after the call (the call
\* returns the value before it)
fetch_add(n) == n + 1

\* WriteBatch::commit up to the loop over the staged records: the checks,
\* then the commit lock and seq_no.fetch_add(1); the sequence number the
\* commit obtained is kept in last.out
CommitBegin ==
    /\ status = "open"
    /\ batch.made
    /\ ~batch_commit_lock
    /\ \E c \in {commit_check(batch.pending_writes, batch.batch_size)} :
         IF c = "Proceed"
         THEN /\ seq_no < MaxCommits
              /\ batch_commit_lock' = TRUE
              /\ seq_no' = fetch_add(seq_no)
              /\ last' = Call("commit", <<>>, <<>>, "Running", <<seq_no>>)
         ELSE /\ last' = Call("commit", <<>>, <<>>, c, <<>>)
              /\ UNCHANGED <<seq_no, batch_commit_lock>>
    /\ UNCHANGED <<options, files, synced, status, active_file, idle_file, index,
                   appended, opens, dir, iter, seen, batch, callers, acquired, faults,
                   inflight, profile>>

\* WriteBatch::commit, the loop: todo!() at the first staged record.  The
\* panic unwinds the call and drops its guards: the commit lock is free again.
\* The unwinding either ends the program or is caught by the caller, who
\* keeps the engine and the batch
CommitApply ==
    /\ status = "open"
    /\ batch_commit_lock
    /\ batch_commit_lock' = FALSE
    /\ status' \in {"panicked", "open"}
    /\ last' = Call("commit", <<>>, <<>>, "Panic", <<>>)
    /\ UNCHANGED <<options, files, synced, active_file, idle_file, index,
                   appended, opens, dir, iter, seen, batch, seq_no, callers, acquired,
                   faults, inflight, profile>>

InitBatch == Init /\ options = [data_file_size |-> 17, sync_writes |-> FALSE]

NextBatch ==
    \/ \E key \in Keys, value \in BatchValues : ~batch.made /\ Put(key, value, put_len(key, value))
    \/ \E key \in Keys : ~batch.made /\ Delete(key, delete_len(key))
    \/ \E key \in Keys : ~batch_commit_lock /\ GetKey(key)
    \/ \E cap \in BatchSizes : BatchNew(cap)
    \/ \E key \in Keys, value \in BatchValues : BatchPut(key, value)
    \/ \E key \in Keys : BatchDelete(key)
    \/ CommitBegin
    \/ CommitApply
    \/ BatchDrop

SpecBatch == InitBatch /\ [][NextBatch]_vars

(***************************************************************************)
(* Commits of several callers.  The threads of the program share one       *)
(* engine; each makes a WriteBatch of its own, stages records in it and    *)
(* commits it when it likes.  WriteBatch::commit is taken step by step:    *)
(* the checks, under the lock of the batch's own buffer; the commit lock   *)
(* of the engine, for which the caller waits while another holds it;       *)
(* seq_no.fetch_add(1); and the loop, which reaches todo!() at the first   *)
(* staged record.  A caller is "idle" outside commit, "waiting" past the   *)
(* checks, "locked" with the commit lock, "numbered" with its sequence     *)
(* number, and "ended" when the panic of the loop ended its thread.        *)
(***************************************************************************)
Callers == {1, 2}

\* a lock that is handed out while another holds it
lock_unguarded(locked) == TRUE

\* Mutex::lock returns when no one holds the mutex
lock(locked) == ~locked

\* the caller t makes its WriteBatch: the buffer is empty
CallerBatch(t, cap) ==
    /\ status = "open"
    /\ t \notin DOMAIN callers
    /\ callers' = (t :> [pc |-> "idle", pending_writes |-> EmptyMap, batch_size |-> cap])
                      @@ callers
    /\ last' = Call("batch_new", <<t>>, <<>>, "Ok", <<>>)
    /\ UNCHANGED <<options, files, synced, status, active_file, idle_file, index,
                   appended, opens, dir, iter, seen, batch, seq_no, batch_commit_lock,
                   acquired, faults, inflight, profile>>

\* WriteBatch::put on the batch of the caller t
CallerPut(t, key, value) ==
    /\ status = "open"
    /\ t \in DOMAIN callers
    /\ callers[t].pc = "idle"
    /\ IF key = <<>>
       THEN /\ last' = Call("batch_put", key, value, "EmptyKey", <<t>>)
            /\ UNCHANGED callers
       ELSE /\ callers' = [callers EXCEPT ![t].pending_writes =
                                            stage(@, key, LogRecord(key, value, Normal))]
            /\ last' = Call("batch_put", key, value, "Ok", <<t>>)
    /\ UNCHANGED <<options, files, synced, status, active_file, idle_file, index,
                   appended, opens, dir, iter, seen, batch, seq_no, batch_commit_lock,
                   acquired, faults, inflight, profile>>

\* WriteBatch::commit of the caller t, the checks: an empty batch returns
\* Ok, one above batch_size the error, any other goes on to the commit lock
CommitEnter(t) ==
    /\ status = "open"
    /\ t \in DOMAIN callers
    /\ callers[t].pc = "idle"
    /\ \E c \in {commit_check(callers[t].pending_writes, callers[t].batch_size)} :
         IF c = "Proceed"
         THEN /\ Len(acquired)
                   + Cardinality({u \in DOMAIN callers : callers[u].pc = "waiting"})
                 < MaxCommits
              /\ callers' = [callers EXCEPT ![t].pc = "waiting"]
              /\ last' = Call("commit", <<t>>, <<>>, "Running", <<>>)
         ELSE /\ last' = Call("commit", <<t>>, <<>>, c, <<>>)
              /\ UNCHANGED callers
    /\ UNCHANGED <<options, files, synced, status, active_file, idle_file, index,
                   appended, opens, dir, iter, seen, batch, seq_no, batch_commit_lock,
                   acquired, faults, inflight, profile>>

\* WriteBatch::commit of the caller t, batch_commit_lock.lock(): the call
\* returns with the lock once no one holds it
CommitLock(t) ==
    /\ status = "open"
    /\ t \in DOMAIN callers
    /\ callers[t].pc = "waiting"
    /\ lock(batch_commit_lock)
    /\ batch_commit_lock' = TRUE
    /\ callers' = [callers EXCEPT ![t].pc = "locked"]
    /\ acquired' = Append(acquired,
                          [caller |-> t, seq_no |-> <<>>,
                           behind |-> {u \in DOMAIN callers : callers[u].pc = "waiting"}
                                         \ {t}])
    /\ last' = Call("commit", <<t>>, <<>>, "Running", <<>>)
    /\ UNCHANGED <<options, files, synced, status, active_file, idle_file, index,
                   appended, opens, dir, iter, seen, batch, seq_no, faults, inflight,
                   profile>>

\* WriteBatch::commit of the caller t, seq_no.fetch_add(1): the commit
\* obtains the value the counter had
CommitNumber(t) ==
    /\ status = "open"
    /\ t \in DOMAIN callers
    /\ callers[t].pc = "locked"
    /\ seq_no' = fetch_add(seq_no)
    /\ callers' = [callers EXCEPT ![t].pc = "numbered"]
    /\ \E i \in {j \in DOMAIN acquired :
                     /\ acquired[j].caller = t
                     /\ \A k \in DOMAIN acquired : k > j => acquired[k].caller # t} :
         acquired' = [acquired EXCEPT ![i].seq_no = <<seq_no>>]
    /\ last' = Call("commit", <<t>>, <<>>, "Running", <<seq_no>>)
    /\ UNCHANGED <<options, files, synced, status, active_file, idle_file, index,
                   appended, opens, dir, iter, seen, batch, batch_commit_lock, faults,
                   inflight, profile>>

\* WriteBatch::commit of the caller t, the loop: todo!() at the first staged
\* record.  The panic unwinds the call and drops its guards: the commit
\* lock is free again.  The unwinding is caught by the caller, or ends its
\* thread, or ends the program
CommitLoop(t) ==
    /\ status = "open"
    /\ t \in DOMAIN callers
    /\ callers[t].pc = "numbered"
    /\ batch_commit_lock' = FALSE
    /\ \E pc \in {"idle", "ended"} : callers' = [callers EXCEPT ![t].pc = pc]
    /\ status' \in {"panicked", "open"}
    /\ last' = Call("commit", <<t>>, <<>>, "Panic", <<>>)
    /\ UNCHANGED <<options, files, synced, active_file, idle_file, index,
                   appended, opens, dir, iter, seen, batch, seq_no, acquired, faults,
                   inflight, profile>>

NextCommit ==
    \/ \E t \in Callers, cap \in BatchSizes : CallerBatch(t, cap)
    \/ \E t \in Callers, key \in Keys, value \in BatchValues : CallerPut(t, key, value)
    \/ \E t \in Callers : CommitEnter(t)
    \/ \E t \in Callers : CommitLock(t)
    \/ \E t \in Callers : CommitNumber(t)
    \/ \E t \in Callers : CommitLoop(t)

SpecCommit == InitBatch /\ [][NextCommit]_vars

(***************************************************************************)
(* One data file on its own: records are encoded and written at its end,   *)
(* read back at the offsets where records start or end, and a byte of a    *)
(* stored key or value may be changed on disk.  No engine exists.          *)
(***************************************************************************)
\* what is added to a byte that is changed on disk
Deltas == {1, 128}

\* the bytes of the records written, one after the other
RECURSIVE Stored(_)
Stored(entries) ==
    IF entries = <<>> THEN <<>>
    ELSE SubSeq(Head(entries).bytes, 1, Head(entries).taken) \o Stored(Tail(entries))

\* the places (counted from 1) of the key and value bytes of the records
PayloadPlaces ==
    UNION {{place \in {appended[i].before + appended[i].len - j :
                        j \in 0..(Len(appended[i].record.key)
                                   + Len(appended[i].record.value) - 1)} :
              place <= appended[i].before + appended[i].taken} :
           i \in DOMAIN appended}

InitCodec ==
    /\ options = [data_file_size |-> 17, sync_writes |-> FALSE]
    /\ files = (INITIAL_DATAFILE_ID :> <<>>)
    /\ synced = (INITIAL_DATAFILE_ID :> 0)
    /\ status = "closed"
    /\ active_file = DataFile(INITIAL_DATAFILE_ID, 0)
    /\ idle_file = EmptyMap
    /\ index = EmptyMap
    /\ last = Call("none", <<>>, <<>>, "Ok", <<>>)
    /\ appended = <<>>
    /\ opens = 0
    /\ dir = [exists |-> TRUE, others |-> {}]
    /\ iter = NoIter
    /\ seen = NoSeen
    /\ batch = NoBatch
    /\ seq_no = 0
    /\ batch_commit_lock = FALSE
    /\ callers = EmptyMap
    /\ acquired = <<>>
    /\ faults = 0
    /\ inflight = <<>>
    /\ profile = "either"

\* DataFile::write of the encoded record at the end of the file; the kernel
\* takes n bytes of it and the offset moves on by n
CodecWrite(r, n) ==
    /\ Len(appended) < MaxWrites
    /\ files[active_file.id] = Stored(appended)
    /\ \E buf \in {encode(r)} :
         /\ files' = [files EXCEPT ![active_file.id] = file_write(@, buf, n)]
         /\ active_file' = DataFile(active_file.id, active_file.offset + n)
         /\ appended' = Append(appended,
                               [record |-> r,
                                pos    |-> LogRecordPos(active_file.id, active_file.offset),
                                len    |-> Len(buf),
                                before |-> active_file.offset,
                                bytes  |-> buf,
                                taken  |-> n])
    /\ last' = Call("write", r.key, r.value, "Ok", <<>>)
    /\ UNCHANGED <<options, synced, status, idle_file, index, opens, aux>>

\* DataFile::read(offset); last.out is <<offset, type byte>>
CodecRead(offset) ==
    /\ \E rd \in {read(files[active_file.id], offset, granted) : granted \in BOOLEAN} :
         last' = Call("read", rd.record.key, rd.record.value, rd.tag,
                      <<offset, TypeToU8(rd.record.record_type)>>)
    /\ UNCHANGED <<options, files, synced, status, active_file, idle_file, index,
                   appended, opens, aux>>

\* one byte of a key or value is changed on disk, once
CodecDamage(place, delta) ==
    /\ files[active_file.id] = Stored(appended)
    /\ files' = [files EXCEPT ![active_file.id][place] = (@ + delta) % 256]
    /\ last' = Call("damage", <<>>, <<>>, "Ok", <<place>>)
    /\ UNCHANGED <<options, synced, status, active_file, idle_file, index,
                   appended, opens, aux>>

NextCodec ==
    \/ \E k \in {<<97>>, <<97, 98>>}, v \in {<<>>, <<49, 50, 51, 52, 53, 54, 55>>},
          t \in {Normal, Deleted} :
          CodecWrite(LogRecord(k, v, t), size(LogRecord(k, v, t)))
    \/ \E r \in {LogRecord(<<97>>, <<>>, Normal)} :
          \E n \in taken_counts(size(r)) \ {size(r)} : CodecWrite(r, n)
    \* the offsets where a record starts or ends
    \/ \E offset \in {0} \cup {appended[i].before + appended[i].taken :
                                 i \in DOMAIN appended} : CodecRead(offset)
    \/ \E place \in PayloadPlaces, delta \in Deltas : CodecDamage(place, delta)

SpecCodec == InitCodec /\ [][NextCodec]_vars

(***************************************************************************)
(* Vocabulary of the properties.                                           *)
(***************************************************************************)
UserKeys == Keys \ {<<>>}

\* the calls (indices into the history) that appended a record for key
WritesOf(key) == {i \in DOMAIN appended : appended[i].record.key = key}

\* the most recent successful write to key, in call order
LastWrite(key) == appended[Max(WritesOf(key))]

\* the order of two u64 offsets, one above i64::MAX being written as a
\* negative number
OffsetLt(x, y) == IF (x < 0) = (y < 0) THEN x < y ELSE y < 0

\* the key's most recent record in the log, ordered by file-id, then offset
PosLeq(p, q) ==
    p.file_id < q.file_id \/ (p.file_id = q.file_id /\ ~OffsetLt(q.offset, p.offset))
LatestRecord(key) ==
    appended[CHOOSE i \in WritesOf(key) :
                \A j \in WritesOf(key) : PosLeq(appended[j].pos, appended[i].pos)]

\* the bytes of the file fid from byte `offset` on, `len` of them
BytesAt(fid, offset, len) == SubSeq(files[fid], offset + 1, offset + len)

\* what every get returns
Mapping == [key \in UserKeys |-> Get(key)]

Engine == <<active_file, idle_file, index>>
Log == <<files, synced>>

TotalSize == LET sum[i \in 0..Len(appended)] ==
                     IF i = 0 THEN 0 ELSE sum[i - 1] + appended[i].len
             IN  sum[Len(appended)]

LastFid == Max(DOMAIN files)

(***************************************************************************)
(* C1.  After put(k, v) returned Ok, the get(k) that follows at once       *)
(* returns Ok with exactly v, for every non-empty key and every value.     *)
(***************************************************************************)
C1_PutThenGet ==
    (status = "open" /\ last.op = "put" /\ last.res = "Ok")
        => Get(last.key) = Ret("Ok", last.value)

(***************************************************************************)
(* C2.  On one engine (never reopened), after any successful puts and      *)
(* deletes, get(k) returns the value of the most recent successful put of  *)
(* k, provided no delete of k succeeded after it.                          *)
(***************************************************************************)
C2_LastWriteWins ==
    (status = "open" /\ opens = 0)
        => \A key \in UserKeys :
              (WritesOf(key) # {} /\ LastWrite(key).record.record_type = Normal)
                  => Get(key) = Ret("Ok", LastWrite(key).record.value)

(***************************************************************************)
(* C3.  get(k) fails with KeyNotFound whenever k was never put on this     *)
(* database, or the most recent successful write to k is a delete.         *)
(***************************************************************************)
C3_KeyNotFound ==
    status = "open"
        => \A key \in UserKeys :
              (WritesOf(key) = {} \/ LastWrite(key).record.record_type = Deleted)
                  => Get(key) = Ret("KeyNotFound", <<>>)

(***************************************************************************)
(* C4.  Opening the directory again right after a successful sync()        *)
(* succeeds and yields the same mapping: every get returns what it         *)
(* returned before the reopen.                                             *)
(***************************************************************************)
C4_Persistence ==
    [][(status = "open" /\ last.op = "sync" /\ last'.op = "open")
          => (status' = "open" /\ Mapping' = Mapping)]_vars

(***************************************************************************)
(* C5.  In every state of an open engine, for every key: if the key's most *)
(* recent record in the log (by file-id, then offset) is Normal, the index *)
(* maps the key to the location of exactly that record; if it is Deleted,  *)
(* or the key has no record, the key is absent from the index.             *)
(***************************************************************************)
C5_IndexMatchesLog ==
    status = "open"
        => \A key \in UserKeys :
              IF WritesOf(key) # {} /\ LatestRecord(key).record.record_type = Normal
              THEN index_has(index, key) /\ index[key] = LatestRecord(key).pos
              ELSE ~index_has(index, key)

(***************************************************************************)
(* C6.  Every index entry k -> (fid, off) is valid: fid is the active      *)
(* segment or an idle one, and a complete Normal record with key k starts  *)
(* at byte off of that segment; so get on an indexed key never ends in     *)
(* DatafileNotFound, InternalError or a tombstone (KeyNotFound).           *)
(***************************************************************************)
NormalRecordAt(key, pos) ==
    \E i \in DOMAIN appended :
        /\ appended[i].record.key = key
        /\ appended[i].record.record_type = Normal
        /\ appended[i].bytes = encode(appended[i].record)
        /\ pos.offset >= 0
        /\ pos.offset + appended[i].len <= Len(files[pos.file_id])
        /\ BytesAt(pos.file_id, pos.offset, appended[i].len) = appended[i].bytes

C6_IndexEntriesValid ==
    status = "open"
        => \A key \in DOMAIN index :
              /\ index[key].file_id \in {active_file.id} \cup DOMAIN idle_file
              /\ index[key].file_id \in DOMAIN files
              /\ NormalRecordAt(key, index[key])
              /\ Get(key).res \notin {"DatafileNotFound", "InternalError", "KeyNotFound"}

(***************************************************************************)
(* C7.  delete(k) of a non-empty key that is absent from the index returns *)
(* KeyNotFound and writes nothing: the segments' bytes, the set of         *)
(* segments, the active offset, the idle map and the index are unchanged.  *)
(* What a get returns is a function of exactly these (Get), so every key   *)
(* still reads what it read before.                                        *)
(***************************************************************************)
C7_DeleteAbsent ==
    [][(status = "open" /\ last'.op = "delete" /\ last'.key # <<>>
            /\ ~index_has(index, last'.key))
          => (/\ last'.res = "KeyNotFound"
              /\ UNCHANGED <<Engine, Log, appended, status>>)]_vars

C7_Witness ==
    /\ last.op = "delete"
    /\ last.res = "KeyNotFound"
    /\ index # EmptyMap
    /\ DOMAIN idle_file # {}

(***************************************************************************)
(* C8.  put, get and delete with a zero-length key return EmptyKey and     *)
(* leave the log and the index unchanged; no record with an empty key      *)
(* ever appears in the log.                                                *)
(***************************************************************************)
\* the bytes the successful appends wrote to the file fid, in call order
Written(fid) ==
    LET cat[i \in 0..Len(appended)] ==
            IF i = 0 THEN <<>>
            ELSE IF appended[i].pos.file_id = fid THEN cat[i - 1] \o appended[i].bytes
            ELSE cat[i - 1]
    IN  cat[Len(appended)]

\* the log holds the appended records and nothing else, and the KeySize
\* field of each of them is not zero
NoEmptyKeyRecord ==
    /\ \A fid \in DOMAIN files : files[fid] = Written(fid)
    /\ \A i \in DOMAIN appended :
          /\ appended[i].record.key # <<>>
          /\ files[appended[i].pos.file_id][appended[i].pos.offset + 6] # 0

C8_EmptyKey ==
    [][(status = "open" /\ last'.op \in {"put", "get", "delete"} /\ last'.key = <<>>)
          => (/\ last'.res = "EmptyKey"
              /\ UNCHANGED <<Engine, Log, appended, status>>
              /\ NoEmptyKeyRecord')]_vars

C8_Witness ==
    /\ last.op = "put"
    /\ last.key = <<>>
    /\ last.res = "EmptyKey"
    /\ appended # <<>>

(***************************************************************************)
(* C9 as stated.  Every segment file has size <= data_file_size except     *)
(* possibly the one with the highest file-id, which may exceed it by at    *)
(* most one record; and once the cumulative encoded size of the appended   *)
(* records exceeds data_file_size there are at least 2 segment files.      *)
(***************************************************************************)
\* the appends that went to the file fid
EntriesIn(fid) == {i \in DOMAIN appended : appended[i].pos.file_id = fid}

C9_SegmentSizesAsStated ==
    /\ \A fid \in DOMAIN files :
          fid # LastFid => Len(files[fid]) <= options.data_file_size
    /\ Len(files[LastFid]) > options.data_file_size
          => \E i \in EntriesIn(LastFid) :
                Len(files[LastFid]) - appended[i].len <= options.data_file_size
    /\ TotalSize > options.data_file_size => Cardinality(DOMAIN files) >= 2

(***************************************************************************)
(* C9, amended.  Every segment file has size <= data_file_size unless it   *)
(* holds exactly one record and that record alone is longer than           *)
(* data_file_size; such a segment may be any segment, not only the last.   *)
(* Once the bytes the segment files hold together exceed data_file_size    *)
(* there are at least 2 segment files; these bytes are the cumulative      *)
(* encoded size of the appended records when every write is taken whole.   *)
(***************************************************************************)
\* the bytes in the segment files
RECURSIVE SizeOf(_)
SizeOf(fids) ==
    IF fids = {} THEN 0
    ELSE LET fid == CHOOSE x \in fids : TRUE
         IN  Len(files[fid]) + SizeOf(fids \ {fid})

StoredSize == SizeOf(DOMAIN files)

C9_SegmentSizes ==
    /\ \A fid \in DOMAIN files :
          \/ Len(files[fid]) <= options.data_file_size
          \/ /\ Cardinality(EntriesIn(fid)) = 1
             /\ \A i \in EntriesIn(fid) :
                   /\ appended[i].len = Len(files[fid])
                   /\ appended[i].len > options.data_file_size
    /\ StoredSize > options.data_file_size => Cardinality(DOMAIN files) >= 2

\* a segment longer than data_file_size that is no longer the last one, next
\* to a segment that was retired because the next record did not fit
C9_Witness ==
    /\ \E fid \in DOMAIN files :
          fid # LastFid /\ Len(files[fid]) > options.data_file_size
    /\ \E fid \in DOMAIN files :
          /\ fid # LastFid
          /\ Cardinality(EntriesIn(fid)) = 1
          /\ Len(files[fid]) <= options.data_file_size
    /\ TotalSize > options.data_file_size

(***************************************************************************)
(* C10.  A record is never split across segments: for every successful     *)
(* append, all L bytes of the encoded record lie contiguously in one       *)
(* segment, starting at the offset of the returned position, which is the  *)
(* append-offset of that segment just before the write.                    *)
(***************************************************************************)
C10_RecordNotSplit ==
    /\ active_file.offset = Len(files[active_file.id])
    /\ \A i \in DOMAIN appended :
          /\ appended[i].bytes = encode(appended[i].record)
          /\ appended[i].len = Len(appended[i].bytes)
          /\ appended[i].pos.file_id \in DOMAIN files
          /\ appended[i].pos.offset = appended[i].before
          /\ appended[i].pos.offset + appended[i].len <= Len(files[appended[i].pos.file_id])
          /\ BytesAt(appended[i].pos.file_id, appended[i].pos.offset, appended[i].len)
                = appended[i].bytes
    /\ \A fid \in DOMAIN files : files[fid] = Written(fid)

(***************************************************************************)
(* C11.  Rotation fsyncs the active segment before it is retired: in every *)
(* state of an open engine all bytes of every idle segment are inside its  *)
(* fsynced prefix, and no step, a crash included, changes or loses a byte  *)
(* of an idle segment.                                                     *)
(***************************************************************************)
IdleDurable ==
    status = "open"
        => \A fid \in DOMAIN idle_file :
              fid \in DOMAIN files /\ synced[fid] = Len(files[fid])

C11_RetiredSegmentsDurable ==
    /\ []IdleDurable
    /\ [][status = "open"
            => \A fid \in DOMAIN idle_file : files'[fid] = files[fid]]_vars

\* a crash that tore the tail off the active segment next to an idle segment
\* that holds a record
C11_Witness ==
    /\ last.op = "crash"
    /\ Len(files[active_file.id]) < active_file.offset
    /\ \E fid \in DOMAIN idle_file : Len(files[fid]) > 0

(***************************************************************************)
(* C12.  With sync_writes = true every record appended by a put or delete  *)
(* that returned Ok lies inside the fsynced prefix of its segment, so that *)
(* after a crash at any later point and a reopen the engine reflects the   *)
(* write: the reopen succeeds and every key reads what its most recent     *)
(* successful write left.                                                  *)
(***************************************************************************)
\* what get returns for key if every successful write is reflected
Expected(key) ==
    IF WritesOf(key) # {} /\ LastWrite(key).record.record_type = Normal
    THEN Ret("Ok", LastWrite(key).record.value)
    ELSE Ret("KeyNotFound", <<>>)

RecordsDurable ==
    \A i \in DOMAIN appended :
        /\ appended[i].pos.offset + appended[i].len <= synced[appended[i].pos.file_id]
        /\ appended[i].pos.offset + appended[i].len <= Len(files[appended[i].pos.file_id])
        /\ BytesAt(appended[i].pos.file_id, appended[i].pos.offset, appended[i].len)
              = appended[i].bytes

\* what get returns for key if the write a crash stopped is reflected
Stopped(key) ==
    IF inflight # <<>> /\ inflight[1].key = key
    THEN IF inflight[1].record_type = Normal
         THEN Ret("Ok", inflight[1].value)
         ELSE Ret("KeyNotFound", <<>>)
    ELSE Expected(key)

C12_SyncWritesDurable ==
    options.sync_writes
        => /\ RecordsDurable
           /\ (last.op = "open" /\ opens > 0)
                 => /\ status = "open"
                    /\ \A key \in UserKeys : Get(key) \in {Expected(key), Stopped(key)}

(***************************************************************************)
(* C13.  The positions returned by successive successful appends are       *)
(* strictly increasing in (file-id, offset) order, also across rotations   *)
(* and across a reopen: call order is log order.                           *)
(***************************************************************************)
PosLt(p, q) ==
    p.file_id < q.file_id \/ (p.file_id = q.file_id /\ OffsetLt(p.offset, q.offset))

C13_AppendOrder ==
    \A i \in DOMAIN appended :
        i < Len(appended) => PosLt(appended[i].pos, appended[i + 1].pos)

(***************************************************************************)
(* C14.  An open engine has one active segment whose id is greater than    *)
(* every idle id and is not a key of the idle map; the segment ids are     *)
(* exactly 0..active.id; an idle segment stays idle, is never written      *)
(* again, and the active id never goes back.                               *)
(***************************************************************************)
SegmentIds ==
    status = "open"
        => /\ active_file.id \notin DOMAIN idle_file
           /\ \A fid \in DOMAIN idle_file : fid < active_file.id /\ idle_file[fid].id = fid
           /\ DOMAIN idle_file \cup {active_file.id} = 0..active_file.id
           /\ DOMAIN files = 0..active_file.id

IdleStaysIdle ==
    (status = "open" /\ status' = "open")
        => /\ active_file'.id >= active_file.id
           /\ \A fid \in DOMAIN idle_file :
                 fid \in DOMAIN idle_file' /\ files'[fid] = files[fid]

C14_OneActiveDenseIds == []SegmentIds /\ [][IdleStaysIdle]_vars

\* two idle segments, one of them empty, after a reopen and an append
C14_Witness ==
    /\ status = "open"
    /\ opens > 0
    /\ active_file.id = 2
    /\ active_file.offset > 0
    /\ files[0] = <<>>

(***************************************************************************)
(* C15.  Segments are append-only: every datafile's offset is the size of  *)
(* its file, after every write and right after open; the offset of the     *)
(* active segment never decreases; no step, reopen included, removes a     *)
(* file, shortens it or changes a byte already written.                    *)
(***************************************************************************)
OffsetsAreSizes ==
    status = "open"
        => /\ active_file.offset = Len(files[active_file.id])
           /\ \A fid \in DOMAIN idle_file : idle_file[fid].offset = Len(files[fid])

AppendOnly ==
    /\ \A fid \in DOMAIN files :
          /\ fid \in DOMAIN files'
          /\ Len(files[fid]) <= Len(files'[fid])
          /\ SubSeq(files'[fid], 1, Len(files[fid])) = files[fid]
    /\ (status = "open" /\ status' = "open" /\ active_file'.id = active_file.id)
          => active_file'.offset >= active_file.offset

C15_AppendOnly == []OffsetsAreSizes /\ [][AppendOnly]_vars

\* an append to a segment that already held a record, on a reopened engine,
\* of which the kernel took a part only
C15_Witness ==
    /\ status = "open"
    /\ opens > 0
    /\ last.op = "put"
    /\ last.res = "Ok"
    /\ Len(appended) >= 2
    /\ appended[Len(appended)].pos.offset > 0
    /\ appended[Len(appended)].taken < appended[Len(appended)].len
    /\ DOMAIN idle_file # {}

(***************************************************************************)
(* C16.  Engine::new on a directory that holds segments (and no other      *)
(* entry named *.data) makes the segment with the maximum file-id the      *)
(* active one, its offset the size of its file, and every other segment    *)
(* idle; on an empty directory it creates the empty segment 0, makes it    *)
(* active, and the idle map is empty.                                      *)
(***************************************************************************)
\* the step is a successful Engine::new
Opened == opens' = opens + 1 /\ status' = "open"

C16_ActiveIsMaxFid ==
    [][(Opened /\ SegmentIdsOf(dir.others) = {})
          => IF DOMAIN files = {}
             THEN /\ files' = (0 :> <<>>)
                  /\ active_file' = DataFile(0, 0)
                  /\ idle_file' = EmptyMap
             ELSE /\ files' = files
                  /\ active_file' = DataFile(Max(DOMAIN files), Len(files[Max(DOMAIN files)]))
                  /\ DOMAIN idle_file' = (DOMAIN files) \ {Max(DOMAIN files)}
                  /\ \A fid \in DOMAIN idle_file' :
                        idle_file'[fid] = DataFile(fid, Len(files[fid]))]_vars

\* an engine opened on the directory that was found holding two segments
C16_Witness ==
    /\ status = "open"
    /\ last.op = "open"
    /\ appended = <<>>
    /\ active_file = DataFile(1, 9)
    /\ DOMAIN idle_file = {0}

(***************************************************************************)
(* C17.  Engine::new with valid options on a dir_path that does not exist  *)
(* creates the directory and succeeds with an empty database whose active  *)
(* segment is segment 0.                                                   *)
(***************************************************************************)
C17_CreatesMissingDir ==
    [][(opens' = opens + 1 /\ ~dir.exists /\ check_options(options) = "Ok")
          => /\ dir'.exists
             /\ status' = "open"
             /\ files' = (0 :> <<>>)
             /\ active_file' = DataFile(0, 0)
             /\ idle_file' = EmptyMap
             /\ index' = EmptyMap]_vars

(***************************************************************************)
(* C18.  At open, the entries whose names do not end in .data are ignored  *)
(* and cause no error; an entry that ends in .data and whose stem is not a *)
(* decimal file-id aborts the open with DatafileCorrupted; every other     *)
(* .data entry becomes the segment of the id its stem spells, and nothing  *)
(* else becomes a segment.                                                 *)
(***************************************************************************)
\* the name without its .data suffix
Stem(name) == SubSeq(name, 1, Len(name) - Len(DATAFILE_SUFFIX))

\* a non-empty text of decimal digits
Decimal(text) == text # <<>> /\ \A i \in DOMAIN text : text[i] >= 48 /\ text[i] <= 57

BadStems(names) ==
    {n \in names : ends_with(n, DATAFILE_SUFFIX) /\ ~Decimal(Stem(n))}

C18_DirectoryEntries ==
    [][(opens' = opens + 1 /\ dir.exists /\ check_options(options) = "Ok")
          => IF BadStems(dir.others) # {}
             THEN last'.res = "DatafileCorrupted"
             ELSE /\ last'.res = "Ok"
                  /\ DOMAIN idle_file' \cup {active_file'.id}
                        = IF DOMAIN files = {} THEN {0} ELSE DOMAIN files]_vars

(***************************************************************************)
(* C19.  An iterator (BTree::iterator or Engine::iter) with the options    *)
(* {reverse, filter}, asked by next again and again from its initial       *)
(* position, returns exactly the keys of the index it was made over that   *)
(* the filter accepts, each once, in strictly ascending byte order         *)
(* (strictly descending if reverse), and after them None, every time.      *)
(***************************************************************************)
YieldedKeys == {seen.yielded[i][1] : i \in DOMAIN seen.yielded}

Accepted == {k \in DOMAIN seen.snapshot : filter_accepts(iter.filter, k)}

InOrder ==
    \A i, j \in DOMAIN seen.yielded :
        i < j => IF iter.reverse
                 THEN cmp(seen.yielded[i][1], seen.yielded[j][1]) > 0
                 ELSE cmp(seen.yielded[i][1], seen.yielded[j][1]) < 0

Yields ==
    /\ YieldedKeys \subseteq Accepted
    /\ InOrder
    /\ seen.nones > 0 => YieldedKeys = Accepted
    /\ seen.late = 0

C19_IteratorYields ==
    (iter.made /\ seen.fresh)
        => /\ Yields
           /\ last.op = "next" => last.res \in {"Some", "None"}

\* the same of the iterators BTree::iterator makes, which read no value
C19_BtreeIteratorYields == (iter.made /\ ~iter.engine /\ seen.fresh) => Yields

(***************************************************************************)
(* C20.  An iterator yields the index as it was when the iterator was      *)
(* made: a put or a delete after that changes nothing of the iterator,     *)
(* and what next returns, keys and locations and order, is a run of the    *)
(* entries of that earlier index which the filter accepts.                 *)
(***************************************************************************)
\* the entries of the index at construction, in the iterator's direction,
\* that the filter accepts
SnapshotRun ==
    LET all == IF iter.reverse THEN reverse(tree_iter(seen.snapshot))
               ELSE tree_iter(seen.snapshot)
        ok(e) == filter_accepts(iter.filter, e[1])
    IN  SelectSeq(all, ok)

YieldsSnapshot ==
    iter.made
        => \E from \in 0..Len(SnapshotRun) :
              /\ from + Len(seen.yielded) <= Len(SnapshotRun)
              /\ \A i \in DOMAIN seen.yielded : seen.yielded[i] = SnapshotRun[from + i]

C20_IteratorSnapshot ==
    /\ []YieldsSnapshot
    /\ [][(iter.made /\ index' # index) => UNCHANGED <<iter, seen>>]_vars

\* the iterator reached its end after a key it returned was deleted and
\* another key was put
C20_Witness ==
    /\ iter.made /\ seen.fresh
    /\ last.op = "next" /\ last.res = "None"
    /\ seen.yielded # <<>>
    /\ \E k \in YieldedKeys : k \notin DOMAIN index
    /\ \E k \in DOMAIN index : k \notin DOMAIN seen.snapshot

(***************************************************************************)
(* C21.  After seek(key), the first next returns the first entry, in the   *)
(* iterator's direction, of the index the iterator was made over whose key *)
(* is >= key (<= key if reverse) and which the filter accepts, with its    *)
(* location; it returns None only if there is no such entry, and it        *)
(* returns one or the other.  The key sought need not be in the index.     *)
(* A next that returned nothing leaves no trace in seen.                   *)
(***************************************************************************)
\* the accepted keys at or after the key sought, in the iterator's direction
Candidates ==
    {k \in Accepted : IF iter.reverse THEN cmp(k, seen.sought[1]) <= 0
                                      ELSE cmp(k, seen.sought[1]) >= 0}

\* what the calls of next after the seek returned so far
YieldsFromSought ==
    /\ seen.yielded # <<>>
         => /\ seen.yielded[1][1] \in Candidates
            /\ seen.yielded[1][2] = seen.snapshot[seen.yielded[1][1]]
            /\ \A k \in Candidates :
                  IF iter.reverse THEN cmp(seen.yielded[1][1], k) >= 0
                                  ELSE cmp(seen.yielded[1][1], k) <= 0
    /\ (seen.yielded = <<>> /\ seen.nones > 0) => Candidates = {}

\* C21: the next after a seek returns the first accepted entry at or after
\* the key sought, or None if there is none
C21_SeekThenNext ==
    (iter.made /\ seen.sought # <<>>)
        => /\ YieldsFromSought
           /\ (last.op = "next" /\ seen.yielded = <<>> /\ seen.nones = 0)
                 => last.res \in {"Some", "None"}

\* the same of the iterators BTree::iterator makes, which read no value
C21_BtreeSeekThenNext == (iter.made /\ ~iter.engine /\ seen.sought # <<>>) => YieldsFromSought

(***************************************************************************)
(* C22.  After rewind, whatever next and seek calls came before it, the    *)
(* iterator yields what an iterator newly made over the same index with    *)
(* the same options yields: the same entries in the same order, and the    *)
(* same end.                                                               *)
(***************************************************************************)
\* what an iterator yields when next is called until it ends, and how
\* it ends
RECURSIVE run(_, _)
run(it, out) ==
    LET n == scan(it.items, it.index, it.filter)
    IN  IF ~n.found THEN [yielded |-> out, res |-> "None"]
        ELSE IF it.engine /\ at(active_file, idle_file, files, n.item[2], TRUE).res # "Ok"
             THEN [yielded |-> out, res |-> "Panic"]
             ELSE run([it EXCEPT !.index = n.index], Append(out, n.item))

AsFresh(f) ==
    /\ Len(seen.yielded) <= Len(f.yielded)
    /\ \A i \in DOMAIN seen.yielded : seen.yielded[i] = f.yielded[i]
    /\ (last.op = "next" /\ last.res \in {"None", "Panic"})
          => (seen.yielded = f.yielded /\ last.res = f.res)

C22_RewindIsFresh ==
    (iter.made /\ seen.rewound)
        => AsFresh(run(iterator(seen.snapshot, iter.reverse, iter.filter, iter.engine),
                       <<>>))

\* an iterator that was moved by seek and next, rewound, and then ran to
\* its end over two entries or more
C22_Witness ==
    /\ iter.made /\ seen.rewound
    /\ last.op = "next" /\ last.res = "None"
    /\ Len(seen.yielded) >= 2

(***************************************************************************)
(* C23.  Every entry an engine iterator yields carries the value that      *)
(* Engine::get returns for its key, and the iterator yields an entry for   *)
(* every key the engine holds, whatever the size of the record and         *)
(* whichever segment holds it.                                             *)
(***************************************************************************)
C23_EngineIteratorEntries ==
    (iter.made /\ iter.engine /\ last.op = "next")
        => /\ last.res # "Panic"
           /\ last.res = "Some" => Get(last.key) = Ret("Ok", last.out)
           /\ (last.res = "None" /\ seen.fresh /\ iter.filter = "all")
                 => YieldedKeys = DOMAIN index

(***************************************************************************)
(* C24.  A record with a non-empty key, Normal or Deleted, with a value of *)
(* any length, that was encoded and written at the end of a data file is   *)
(* read back unchanged at the offset where it starts, and the read at the  *)
(* end of the file returns the end of file (None); this for every number   *)
(* of bytes between the offset and the end of the file.                    *)
(***************************************************************************)
\* the file holds what was written
Undamaged == files[active_file.id] = Stored(appended)

C24_CodecRoundTrip ==
    (last.op = "read" /\ Undamaged)
        => /\ \A i \in DOMAIN appended :
                 appended[i].before = last.out[1]
                     => /\ last.res = "Some"
                        /\ last.key = appended[i].record.key
                        /\ last.value = appended[i].record.value
                        /\ last.out[2] = TypeToU8(appended[i].record.record_type)
           /\ last.out[1] = Len(files[active_file.id]) => last.res = "None"

(***************************************************************************)
(* C25.  After one byte of the key or the value of a stored record was     *)
(* changed on disk, the read at the offset of that record fails with       *)
(* DatafileCorrupted.                                                      *)
(***************************************************************************)
\* the stored bytes of the i-th record differ from the bytes written
Damaged(i) ==
    /\ appended[i].taken = appended[i].len
    /\ SubSeq(files[active_file.id], appended[i].before + 1,
              appended[i].before + appended[i].len) # appended[i].bytes

C25_CrcRejects ==
    last.op = "read"
        => \A i \in DOMAIN appended :
              (Damaged(i) /\ appended[i].before = last.out[1])
                  => last.res = "DatafileCorrupted"

(***************************************************************************)
(* C27.  Staging does not touch the engine.  Making a batch, a batch put,  *)
(* a batch delete and dropping the batch leave the files, the index, the   *)
(* segments, the sequence counter and the commit lock as they were, so     *)
(* that Engine::get answers as before; a successful batch put leaves       *)
(* exactly one pending record for its key, the one just staged, and the    *)
(* pending records of the other keys as they were; a dropped batch leaves  *)
(* nothing behind.                                                         *)
(***************************************************************************)
\* all that Engine::get, a reopen or a commit can see of the engine
EngineState ==
    <<files, synced, active_file, idle_file, index, appended, status, seq_no,
      batch_commit_lock>>

C27_StagingLeavesEngine ==
    [][/\ last'.op \in {"batch_new", "batch_put", "batch_delete", "batch_drop"}
            => UNCHANGED EngineState
       /\ (last'.op = "batch_put" /\ last'.res = "Ok")
            => batch'.pending_writes =
                 [k \in DOMAIN batch.pending_writes \cup {last'.key} |->
                     IF k = last'.key THEN LogRecord(last'.key, last'.value, Normal)
                     ELSE batch.pending_writes[k]]
       /\ last'.op = "batch_drop" => batch' = NoBatch]_vars

\* a key the engine holds was staged a second time, with another value than
\* the engine has for it
C27_Witness ==
    /\ batch.made
    /\ last.op = "batch_put" /\ last.res = "Ok" /\ last.out = <<1>>
    /\ last.key \in DOMAIN index
    /\ batch.pending_writes[last.key].value = last.value
    /\ Get(last.key).res = "Ok"
    /\ Get(last.key).out # last.value

(***************************************************************************)
(* C28 as stated.  WriteBatch::delete of a non-empty key returns Ok and:   *)
(* leaves the buffer unchanged if the key is neither in the index nor in   *)
(* the buffer; removes the pending entry if the buffer holds a put of the  *)
(* key; stages a Deleted record otherwise.                                 *)
(***************************************************************************)
\* the buffer after the key's entry is removed
Without(pending, key) == [k \in (DOMAIN pending) \ {key} |-> pending[k]]

\* the buffer after a Deleted record is staged for the key
WithDeleted(pending, key) ==
    [k \in DOMAIN pending \cup {key} |->
        IF k = key THEN LogRecord(key, <<>>, Deleted) ELSE pending[k]]

C28_BatchDeleteAsStated ==
    [][(last'.op = "batch_delete" /\ last'.key # <<>>)
          => /\ last'.res = "Ok"
             /\ batch'.pending_writes =
                  IF /\ last'.key \notin DOMAIN index
                     /\ last'.key \notin DOMAIN batch.pending_writes
                  THEN batch.pending_writes
                  ELSE IF /\ last'.key \in DOMAIN batch.pending_writes
                          /\ batch.pending_writes[last'.key].record_type = Normal
                  THEN Without(batch.pending_writes, last'.key)
                  ELSE WithDeleted(batch.pending_writes, last'.key)]_vars

(***************************************************************************)
(* C28 as amended.  WriteBatch::delete of a non-empty key returns Ok and:  *)
(* if the key is not in the engine's index, the buffer loses its pending   *)
(* entry for the key, if it has one, and is unchanged otherwise; if the    *)
(* key is in the index, a Deleted record is staged for it, in place of a   *)
(* pending put of the key if there is one.                                 *)
(***************************************************************************)
C28_BatchDelete ==
    [][(last'.op = "batch_delete" /\ last'.key # <<>>)
          => /\ last'.res = "Ok"
             /\ batch'.pending_writes =
                  IF last'.key \notin DOMAIN index
                  THEN Without(batch.pending_writes, last'.key)
                  ELSE WithDeleted(batch.pending_writes, last'.key)]_vars

\* a key the engine holds, with a put pending in the batch, was deleted in
\* the batch: a Deleted record is pending for it
C28_Witness ==
    /\ batch.made
    /\ last.op = "batch_delete" /\ last.res = "Ok" /\ last.out = <<1>>
    /\ last.key \in DOMAIN index
    /\ last.key \in DOMAIN batch.pending_writes
    /\ batch.pending_writes[last.key].record_type = Deleted

(***************************************************************************)
(* C29.  The commit of a batch that is not empty and within batch_size     *)
(* returns Ok: every staged record is appended to the log, one after the   *)
(* other with the commit lock held, the index reflects every staged put    *)
(* and delete, and the buffer is empty afterwards.                         *)
(***************************************************************************)
\* the step ends a commit that had taken the commit lock
CommitEnds == batch_commit_lock /\ ~batch_commit_lock'

C29_CommitApplies ==
    [][CommitEnds
          => /\ last'.res = "Ok"
             /\ status' = "open"
             /\ batch'.pending_writes = EmptyMap
             /\ Len(appended') = Len(appended) + Cardinality(DOMAIN batch.pending_writes)
             /\ \A k \in DOMAIN batch.pending_writes :
                   /\ \E i \in (Len(appended) + 1)..Len(appended') :
                         appended'[i].record = batch.pending_writes[k]
                   /\ k \in DOMAIN index'
                         <=> batch.pending_writes[k].record_type = Normal]_vars

(***************************************************************************)
(* C30.  The commit of an empty batch returns Ok, the commit of a batch    *)
(* with more pending entries than batch_size returns BatchSizeExceeded,    *)
(* and both change nothing: not the log, not the index, not the sequence   *)
(* counter, not the buffer; the commit lock is not taken.                  *)
(***************************************************************************)
C30_CommitRejects ==
    [][(/\ last'.op = "commit"
        /\ batch.made /\ ~batch_commit_lock
        /\ \/ DOMAIN batch.pending_writes = {}
           \/ Cardinality(DOMAIN batch.pending_writes) > batch.batch_size)
          => /\ last'.res = IF DOMAIN batch.pending_writes = {} THEN "Ok"
                            ELSE "BatchSizeExceeded"
             /\ UNCHANGED <<EngineState, batch>>]_vars

\* a batch holding two records with batch_size 1 was committed
C30_Witness ==
    /\ batch.made
    /\ last.op = "commit" /\ last.res = "BatchSizeExceeded"
    /\ Cardinality(DOMAIN batch.pending_writes) > batch.batch_size
    /\ seq_no = 0
    /\ ~batch_commit_lock

(***************************************************************************)
(* C32.  The sequence counter grows by exactly one in each commit that     *)
(* passed the empty and the size check, in the step of the caller that     *)
(* holds the commit lock, and it moves in no other step.  Commits of       *)
(* different batches that run at the same time on one engine therefore     *)
(* obtain numbers that are pairwise distinct and that grow in the order    *)
(* in which the commits took the commit lock.                              *)
(***************************************************************************)
\* the commits that obtained their number, by their place in the order the
\* lock was taken
Numbered == {i \in DOMAIN acquired : acquired[i].seq_no # <<>>}

InLockOrder ==
    \A i, j \in Numbered : i < j => acquired[i].seq_no[1] < acquired[j].seq_no[1]

\* the counter counts the commits that obtained a number; a commit past the
\* checks without one is the one that took the lock last, about to fetch_add
OncePerCommit ==
    /\ seq_no = Cardinality(Numbered)
    /\ \A i \in (DOMAIN acquired) \ Numbered :
          i = Len(acquired) /\ callers[acquired[i].caller].pc = "locked"

\* the holders of the commit lock
Holders == {t \in DOMAIN callers : callers[t].pc \in {"locked", "numbered"}}

\* C32: one increment per commit past the checks, by the holder of the
\* commit lock; the numbers grow in the order the lock was taken
C32_SequenceNumbers ==
    /\ [](InLockOrder /\ OncePerCommit)
    /\ [][seq_no' # seq_no
            => /\ seq_no' = seq_no + 1
               /\ batch_commit_lock /\ batch_commit_lock'
               /\ \E t \in DOMAIN callers :
                     /\ Holders = {t}
                     /\ callers[t].pc = "locked" /\ callers'[t].pc = "numbered"
                     /\ acquired[Len(acquired)].caller = t
                     /\ acquired'[Len(acquired)].seq_no = <<seq_no>>]_vars

\* two callers were in commit at the same time, each with its own batch:
\* one waited for the commit lock while the other took it; the first to
\* take the lock obtained 0 and the one behind it 1
C32_Witness ==
    /\ Len(acquired) = 2
    /\ acquired[1].caller # acquired[2].caller
    /\ acquired[2].caller \in acquired[1].behind
    /\ acquired[1].seq_no = <<0>>
    /\ acquired[2].seq_no = <<1>>

(***************************************************************************)
(* C33.  An append of a record of encoded length L rotates exactly when    *)
(* the append-offset of the active segment plus L exceeds data_file_size:  *)
(* with rotation the active segment is retired to the idle ones and the    *)
(* record goes to a fresh segment whose file-id is one higher; without, it *)
(* goes to the active segment, a record that exactly fills the segment     *)
(* (offset + L = data_file_size) included.  The record appended next after *)
(* one that exactly filled the active segment goes to a fresh segment.     *)
(***************************************************************************)
\* the check finds that the record e does not fit the active segment
Rotates(e) == active_file.offset + e.len > options.data_file_size

\* the rotation, or the append in place, of the step that appended e
RotationOf(e) ==
    IF Rotates(e)
    THEN /\ active_file'.id = active_file.id + 1
         /\ e.pos.file_id = active_file.id + 1
         /\ e.before = 0
         /\ active_file.id + 1 \notin DOMAIN files
         /\ active_file.id + 1 \in DOMAIN files'
         /\ active_file.id \in DOMAIN idle_file'
    ELSE /\ active_file'.id = active_file.id
         /\ e.pos.file_id = active_file.id
         /\ e.before = active_file.offset
         /\ DOMAIN files' = DOMAIN files
         /\ idle_file' = idle_file

\* the record appended last exactly filled the segment that is still the
\* active one
FilledExactly ==
    /\ appended # <<>>
    /\ appended[Len(appended)].pos.file_id = active_file.id
    /\ appended[Len(appended)].before + appended[Len(appended)].len
          = options.data_file_size

\* the rotation check alone: an append rotates exactly when the record does
\* not fit, and the record goes to the segment the check chose
C33_RotationCheck ==
    [][(status = "open" /\ Len(appended') = Len(appended) + 1)
          => RotationOf(appended'[Len(appended')])]_vars

\* C33: the rotation check, and a fresh segment for the record appended
\* after one that exactly filled the active segment
C33_Rotation ==
    [][(status = "open" /\ Len(appended') = Len(appended) + 1)
          => /\ RotationOf(appended'[Len(appended')])
             /\ FilledExactly => active_file'.id = active_file.id + 1]_vars

(***************************************************************************)
(* C34.  Opening the directory again ends with an engine (the scan of      *)
(* every segment terminates) whose index is the replay of all records in   *)
(* log order, that is ordered by file-id and then by offset: put for a     *)
(* Normal record, delete for a Deleted one.                                *)
(***************************************************************************)
\* the appended records in log order
LogOrder ==
    CHOOSE o \in Orders(DOMAIN appended) :
        \A i, j \in DOMAIN o : i <= j => PosLeq(appended[o[i]].pos, appended[o[j]].pos)

ReplayInLogOrder ==
    LET step[i \in 0..Len(appended)] ==
            IF i = 0 THEN EmptyMap
            ELSE IF appended[LogOrder[i]].record.record_type = Normal
                 THEN index_put(step[i - 1], appended[LogOrder[i]].record.key,
                                appended[LogOrder[i]].pos)
                 ELSE index_delete(step[i - 1], appended[LogOrder[i]].record.key)
    IN  step[Len(appended)]

C34_ReplayInLogOrder ==
    [][(status = "open" /\ opens' = opens + 1)
          => (last'.res = "Ok" /\ index' = ReplayInLogOrder)]_vars

(***************************************************************************)
(* One data file with contents of any kind: a record whose Type byte may   *)
(* be any of RawTypes, followed by zero bytes, cut off at any length (a    *)
(* torn tail).  DataFile::read is called at any offset up to the file      *)
(* size.  No engine exists.                                                *)
(***************************************************************************)
RawTypes == {0, 1, 2, 3}
\* the largest number of zero bytes after the record
MaxPadding == 9

\* the bytes of a record with the Type byte t; the CRC field is the one of
\* the record's encoding where t is a record type, of the Normal record else
raw_record(key, value, t) ==
    IF t = TypeToU8(Normal) THEN encode(LogRecord(key, value, Normal))
    ELSE IF t = TypeToU8(Deleted) THEN encode(LogRecord(key, value, Deleted))
    ELSE [encode(LogRecord(key, value, Normal)) EXCEPT ![5] = t]

Zeroes(n) == [i \in 1..n |-> 0]

\* a header with the Type byte t whose KeySize field says 30 GiB + 1, and
\* two bytes after it
raw_huge(t) == <<1, 2, 3, 4, t, 129, 128, 128, 128, 120, 0, 97, 97>>

RawFiles ==
    {SubSeq(raw_record(k, v, t) \o Zeroes(MaxPadding), 1, n) :
        k \in {<<>>, <<97>>}, v \in {<<>>, <<120>>}, t \in RawTypes,
        n \in 0..(7 + MaxPadding)}
    \cup {raw_huge(t) \o Zeroes(n) : t \in RawTypes, n \in 0..MaxPadding}

InitRaw ==
    /\ options = [data_file_size |-> 17, sync_writes |-> FALSE]
    /\ \E f \in RawFiles :
         /\ files = (INITIAL_DATAFILE_ID :> f)
         /\ synced = (INITIAL_DATAFILE_ID :> Len(f))
         /\ active_file = DataFile(INITIAL_DATAFILE_ID, Len(f))
    /\ status = "closed"
    /\ idle_file = EmptyMap
    /\ index = EmptyMap
    /\ last = Call("none", <<>>, <<>>, "Ok", <<>>)
    /\ appended = <<>>
    /\ opens = 0
    /\ dir = [exists |-> TRUE, others |-> {}]
    /\ iter = NoIter
    /\ seen = NoSeen
    /\ batch = NoBatch
    /\ seq_no = 0
    /\ batch_commit_lock = FALSE
    /\ callers = EmptyMap
    /\ acquired = <<>>
    /\ faults = 0
    /\ inflight = <<>>
    /\ profile = "either"

NextRaw == \E offset \in 0..Len(files[active_file.id]) : CodecRead(offset)

SpecRaw == InitRaw /\ [][NextRaw]_vars

(***************************************************************************)
(* C35.  DataFile::read is total: for any file contents and any offset up  *)
(* to the file size it returns a record, EndOfFile or an error value; it   *)
(* never panics, whatever number of bytes remains after the offset.        *)
(***************************************************************************)
C35_ReadIsTotal ==
    last.op = "read"
        => last.res \in {"Some", "None", "DatafileCorrupted", "FailToReadFromFile"}

(***************************************************************************)
(* C36.  A read at an offset where the Type byte is present and is neither *)
(* 1 (Normal) nor 2 (Deleted) fails with DatafileCorrupted, whatever the   *)
(* KeySize and ValueSize fields are; it is neither EndOfFile nor a record. *)
(***************************************************************************)
\* the Type byte of the record that starts at offset, present in the file
InvalidTypeAt(offset) ==
    /\ Len(files[active_file.id]) >= offset + 5
    /\ TypeFromU8(files[active_file.id][offset + 5]) = "Invalid"

C36_InvalidType ==
    (last.op = "read" /\ InvalidTypeAt(last.out[1])) => last.res = "DatafileCorrupted"

(***************************************************************************)
(* Engine::at called with a location of the caller's choice: the start of  *)
(* any record written, the end of any segment, and a file-id one past the  *)
(* last segment.                                                           *)
(***************************************************************************)
Locations ==
    {pos \in [file_id : 0..(Max(DOMAIN files) + 1),
              offset  : {0} \cup {appended[i].pos.offset : i \in DOMAIN appended}
                            \cup {Len(files[fid]) : fid \in DOMAIN files}] :
        pos.file_id \in DOMAIN files => pos.offset <= Len(files[pos.file_id])}

\* Engine::at; last.key is <<file_id, offset>>.  A panic inside the read
\* unwinds the caller: the engine is lost.
At(pos) ==
    /\ status = "open"
    /\ \E g \in {at(active_file, idle_file, files, pos, granted) : granted \in BOOLEAN} :
         /\ last' = Call("at", <<pos.file_id, pos.offset>>, <<>>, g.res, g.out)
         /\ status' = lost_by(g.res, status)
    /\ UNCHANGED <<options, files, synced, active_file, idle_file, index, appended, opens,
                   aux>>

NextAt ==
    \/ \E key \in UserKeys, value \in Values : Put(key, value, put_len(key, value))
    \/ \E key \in UserKeys : Delete(key, delete_len(key))
    \/ \E pos \in Locations : At(pos)

SpecAt == Init /\ [][NextAt]_vars

(***************************************************************************)
(* C37.  Engine::at(location) returns DatafileNotFound when the location's *)
(* file-id is neither the active segment's nor an idle one's; otherwise it *)
(* reads that segment and returns InternalError at the end of the file,    *)
(* KeyNotFound where a Deleted record starts, and the value where a Normal *)
(* record starts.  The call changes nothing of the engine.                 *)
(***************************************************************************)
RecordsAt(fid, offset) ==
    {i \in DOMAIN appended : appended[i].pos = LogRecordPos(fid, offset)}

AtAsStated(fid, offset, res) ==
    IF fid # active_file.id /\ fid \notin DOMAIN idle_file
    THEN res = Ret("DatafileNotFound", <<>>)
    ELSE IF offset = Len(files[fid]) THEN res = Ret("InternalError", <<>>)
    ELSE \A i \in RecordsAt(fid, offset) :
            res = IF appended[i].record.record_type = Normal
                  THEN Ret("Ok", appended[i].record.value)
                  ELSE Ret("KeyNotFound", <<>>)

C37_At ==
    [][(status = "open" /\ last'.op = "at")
          => /\ AtAsStated(last'.key[1], last'.key[2], Ret(last'.res, last'.out))
             /\ UNCHANGED <<active_file, idle_file, index, files, synced, status>>]_vars

(***************************************************************************)
(* Iteration over an engine whose segments are damaged on disk: one byte   *)
(* of one segment is changed, once, by something other than the engine.    *)
(***************************************************************************)
SpoilValues == {<<>>, <<120>>}

\* the byte at `place` (counted from 1) of the segment fid is changed
Spoil(fid, place, delta) ==
    /\ status = "open"
    /\ \A f \in DOMAIN files : files[f] = Written(f)
    /\ files' = [files EXCEPT ![fid][place] = (@ + delta) % 256]
    /\ last' = Call("spoil", <<>>, <<>>, "Ok", <<fid, place>>)
    /\ UNCHANGED <<options, synced, status, active_file, idle_file, index, appended,
                   opens, aux>>

NextSpoil ==
    \/ \E key \in UserKeys, value \in SpoilValues :
          ~Borrowed /\ Put(key, value, put_len(key, value))
    \/ \E rev \in BOOLEAN : IterNew(rev, "all", TRUE)
    \/ IterNext
    \/ IterDrop
    \/ \E fid \in DOMAIN files, delta \in Deltas :
          \E place \in 1..Len(files[fid]) : Spoil(fid, place, delta)

SpecSpoil == InitIter /\ [][NextSpoil]_vars

(***************************************************************************)
(* C38.  When Engine::at returns an error for the entry that               *)
(* EngineIterator::next is about to yield, the call ends with an Internal  *)
(* error outcome: the process is not aborted, and the entry is neither     *)
(* skipped nor taken for the end of the sequence.                          *)
(***************************************************************************)
\* the entry the iterator is at, if any, cannot be read: at returns an error
NextEntryFails ==
    /\ iter.made /\ iter.engine
    /\ \E n \in {scan(items_of(iter, index), iter.index, iter.filter)} :
          /\ n.found
          /\ at(active_file, idle_file, files, n.item[2], TRUE).res
                \notin {"Ok", "Panic", "ProcessAborted"}

C38_NextSurfacesError ==
    [][(status = "open" /\ NextEntryFails /\ last'.op = "next" /\ iter' # iter)
          => (last'.res = "InternalError" /\ status' = "open")]_vars

(***************************************************************************)
(* File I/O that fails.  Inside append_log_record four calls can return an *)
(* error, each ending put or delete with `?`: the sync of the retiring     *)
(* segment, DataFile::new of the fresh one, the write of the record, and   *)
(* the sync after it under sync_writes.  DataFile::new has four error      *)
(* exits: Path::is_dir answers false (as it does when the stat of the      *)
(* directory fails), File::create fails, File::metadata of the file opened *)
(* fails, and File::open or the open of FileIO::new fails.                 *)
(***************************************************************************)
FaultPoints == {"sync_retiring", "dir_fresh", "create_fresh", "metadata_fresh",
                "open_fresh", "append", "sync_append"}

\* append_log_record up to the call that fails at `point`: the set holding
\* the error and what the call leaves behind, empty where this call does
\* not come to that point
append_log_record_failing(opts, e, record, point) ==
    LET rot    == must_rotate(e.active.offset, Len(record), opts.data_file_size)
        fresh  == e.active.id + 1
        sy     == file_sync(e.files, e.synced, e.active.id)
        room   == make_room(opts, e, Len(record))
        wrote  == write_record([opts EXCEPT !.sync_writes = FALSE], room, record, Len(record))
    IN
    IF point = "sync_retiring"
    THEN IF rot THEN {[tag |-> "FailToSyncFile", world |-> e]} ELSE {}
    ELSE IF point = "dir_fresh"
    THEN IF rot
         THEN {[tag |-> "DatafileNotFound", world |-> World(e.active, e.idle, e.files, sy)]}
         ELSE {}
    ELSE IF point = "create_fresh"
    THEN IF rot /\ fresh \notin DOMAIN e.files
         THEN {[tag |-> "CreateDbFileFail", world |-> World(e.active, e.idle, e.files, sy)]}
         ELSE {}
    ELSE IF point \in {"metadata_fresh", "open_fresh"}
    THEN IF rot
         THEN {[tag   |-> IF point = "open_fresh" THEN "FailToOpenFile" ELSE "InternalError",
                world |-> World(e.active, e.idle, datafile_create(e.files, fresh),
                                IF fresh \in DOMAIN e.files THEN sy ELSE (fresh :> 0) @@ sy)]}
         ELSE {}
    ELSE IF point = "append"
    THEN {[tag |-> "FailToWriteToFile", world |-> room]}
    ELSE IF opts.sync_writes
         THEN {[tag   |-> "FailToSyncFile",
                world |-> World(wrote.active, wrote.idle, wrote.files, wrote.synced)]}
         ELSE {}

\* Engine::put, its append failing at `point`: the error leaves through `?`
\* before the index is touched
PutFails(key, value, point) ==
    /\ status = "open"
    /\ ~put_rejects(key)
    /\ faults < MaxFaults
    /\ \E f \in append_log_record_failing(options, Here,
                                          encode(LogRecord(key, value, Normal)), point) :
         /\ files' = f.world.files
         /\ synced' = f.world.synced
         /\ active_file' = f.world.active
         /\ idle_file' = f.world.idle
         /\ last' = Call("put", key, value, f.tag, <<>>)
    /\ faults' = faults + 1
    /\ UNCHANGED <<options, status, index, appended, opens, dir, iter, seen, held,
                   inflight, profile>>

\* Engine::delete, its append failing at `point`
DeleteFails(key, point) ==
    /\ status = "open"
    /\ ~delete_rejects(index, key)
    /\ faults < MaxFaults
    /\ \E f \in append_log_record_failing(options, Here,
                                          encode(LogRecord(key, <<>>, Deleted)), point) :
         /\ files' = f.world.files
         /\ synced' = f.world.synced
         /\ active_file' = f.world.active
         /\ idle_file' = f.world.idle
         /\ last' = Call("delete", key, <<>>, f.tag, <<>>)
    /\ faults' = faults + 1
    /\ UNCHANGED <<options, status, index, appended, opens, dir, iter, seen, held,
                   inflight, profile>>

FaultKeys == {<<97>>}

InitFault == Init /\ options.data_file_size = 12

NextFault ==
    \/ \E key \in FaultKeys, value \in SpoilValues : Put(key, value, put_len(key, value))
    \/ \E key \in FaultKeys : Delete(key, delete_len(key))
    \/ \E key \in FaultKeys, value \in SpoilValues, point \in FaultPoints :
          PutFails(key, value, point)
    \/ \E key \in FaultKeys, point \in FaultPoints : DeleteFails(key, point)
    \/ Reopen

SpecFault == InitFault /\ [][NextFault]_vars

(***************************************************************************)
(* C39.  A put or delete that returns an error because of an I/O failure   *)
(* leaves the observable mapping unchanged: once calls have failed, every  *)
(* get still returns what the successful calls alone have made of the key, *)
(* on the live engine and after opening the directory again.               *)
(***************************************************************************)
\* what get returns for the key by the successful calls
Unfailed(key) ==
    IF WritesOf(key) = {} \/ LastWrite(key).record.record_type = Deleted
    THEN Ret("KeyNotFound", <<>>)
    ELSE Ret("Ok", LastWrite(key).record.value)

C39_FailedWriteChangesNothing ==
    faults > 0 => (status = "open" /\ \A key \in FaultKeys : Get(key) = Unfailed(key))

(***************************************************************************)
(* C40.  A record whose encoded length exceeds data_file_size is accepted: *)
(* the put succeeds, the record is written whole as the only record of a   *)
(* fresh segment, which it gets even when the active segment is empty, the *)
(* next append rotates again, and get returns the record's value.          *)
(***************************************************************************)
\* the last successful call was the put of a record longer than a segment
OversizedPut ==
    /\ last.op = "put" /\ last.res = "Ok"
    /\ appended # <<>>
    /\ appended[Len(appended)].record = LogRecord(last.key, last.value, Normal)
    /\ appended[Len(appended)].len > options.data_file_size

C40_Oversized ==
    /\ []((status = "open" /\ OversizedPut)
            => /\ appended[Len(appended)].pos = LogRecordPos(active_file.id, 0)
               /\ files[active_file.id] = appended[Len(appended)].bytes
               /\ Get(last.key) = Ret("Ok", last.value))
    /\ [][(status = "open" /\ Len(appended') = Len(appended) + 1)
            => /\ appended'[Len(appended')].len > options.data_file_size
                  => /\ appended'[Len(appended')].pos = LogRecordPos(active_file.id + 1, 0)
                     /\ last'.res = "Ok"
               /\ active_file.offset > options.data_file_size
                  => appended'[Len(appended')].pos = LogRecordPos(active_file.id + 1, 0)]_vars

====
